---------------------------- MODULE Spec2Model ----------------------------
(***************************************************************************)
(* Model of the ECHR scraper: the monthly crawl loop                       *)
(* (MonthlyECHRScraper.run / flushBatch) and the D1 persistence adapter    *)
(* (D1Adapter.saveApplication / saveBatch / buildBatchSQLWithReps /        *)
(* markAsNotFound) acting on the applications, events and representatives  *)
(* tables.                                                                 *)
(*                                                                         *)
(* Text values are sequences of one-character strings, so that the         *)
(* conversions of the adapter (convertDate, extractCountry, isCaseClosed)  *)
(* are computed as the code computes them.                                 *)
(***************************************************************************)
EXTENDS Integers, Sequences, FiniteSets, TLC

\* ------------------------------------------------------------------------
\* Bounds of the model
\* ------------------------------------------------------------------------
\* attempts explored in one monthly run
MaxChecked == 4
\* maxConsecutiveSkips is drawn from 1..MaxSkips
MaxSkips == 3
\* maxYear is startYear + MaxYearSpan
MaxYearSpan == 1
\* startNumber is drawn from 1..MaxStartNumber
MaxStartNumber == 2
\* BATCH_ATTEMPTS is drawn from 1..MaxBatchAttempts
MaxBatchAttempts == 3
\* adapter calls explored in one adapter run
MaxCalls == 2
\* not-found marks explored beyond the skip threshold
MarksBeyond == 2

\* the number of upserts applied one after the other on one case
MaxApplies == 3

\* the number of batches saved one after the other where the batch script is
\* examined
MaxBatchCalls == 2

\* saveBatch calls on the fallback batches
MaxFallbackCalls == 1

\* saveBatch calls through the import protocol
MaxImports == 2

\* poll answers that do not end an import
MaxPolls == 2

\* saveApplication calls on the cases of three representatives
MaxCacheCalls == 3

\* tokens in a date text given to convertDate
MaxDateTokens == 7

\* tokens in a title given to extractCountry
MaxTitleTokens == 4

\* persisted cases that may be subscribed to when the weekly crawl starts
MaxSubscribed == 2

\* ------------------------------------------------------------------------
\* Text
\* ------------------------------------------------------------------------
\* JavaScript null / undefined (a value no text equals)
Null == <<"null-value">>

Digits == {"0", "1", "2", "3", "4", "5", "6", "7", "8", "9"}

Whitespace == {" "}

RECURSIVE Split(_, _)
\* String.prototype.split(sep) for a one-character separator
Split(s, sep) ==
    IF \A i \in 1..Len(s) : s[i] # sep
    THEN <<s>>
    ELSE LET k == CHOOSE i \in 1..Len(s) :
                      s[i] = sep /\ \A j \in 1..(i - 1) : s[j] # sep
         IN <<SubSeq(s, 1, k - 1)>> \o Split(SubSeq(s, k + 1, Len(s)), sep)

\* String.prototype.padStart(2, '0')
padStart2(s) ==
    IF Len(s) >= 2 THEN s
    ELSE IF Len(s) = 1 THEN <<"0">> \o s
    ELSE <<"0", "0">>

\* /^\d{4}-\d{2}-\d{2}$/
IsIsoDate(s) ==
    /\ Len(s) = 10
    /\ \A i \in {1, 2, 3, 4, 6, 7, 9, 10} : s[i] \in Digits
    /\ s[5] = "-"
    /\ s[8] = "-"

\* D1Adapter.convertDate: DD/MM/YYYY to YYYY-MM-DD
convertDate(dateStr) ==
    IF dateStr = Null \/ dateStr = <<>> THEN Null
    ELSE IF IsIsoDate(dateStr) THEN dateStr
    ELSE LET parts == Split(dateStr, "/")
             day == IF Len(parts) >= 1 THEN parts[1] ELSE Null
             month == IF Len(parts) >= 2 THEN parts[2] ELSE Null
             year == IF Len(parts) >= 3 THEN parts[3] ELSE Null
         IN IF day \in {Null, <<>>} \/ month \in {Null, <<>>} \/ year \in {Null, <<>>}
            THEN Null
            ELSE year \o <<"-">> \o padStart2(month) \o <<"-">> \o padStart2(day)

\* String.prototype.trim
RECURSIVE trim(_)
trim(s) ==
    IF s = <<>> THEN s
    ELSE IF s[1] \in Whitespace THEN trim(Tail(s))
    ELSE IF s[Len(s)] \in Whitespace THEN trim(SubSeq(s, 1, Len(s) - 1))
    ELSE s

\* positions where /v\.\s+(.+)$/ can match: "v." then whitespace then one more
\* character at least
CountryMatches(title) ==
    {i \in 1..Len(title) :
        /\ i + 3 <= Len(title)
        /\ title[i] = "v"
        /\ title[i + 1] = "."
        /\ title[i + 2] \in Whitespace}

\* D1Adapter.extractCountry: title.match(/v\.\s+(.+)$/), match[1].trim().
\* The regular expression matches at the leftmost position; \s+ is greedy but
\* leaves one character to (.+). A null title makes title.match throw: the
\* callers guard that case (Malformed).
extractCountry(title) ==
    IF CountryMatches(title) = {} THEN Null
    ELSE LET i == CHOOSE k \in CountryMatches(title) :
                      \A m \in CountryMatches(title) : k <= m
             rest == SubSeq(title, i + 2, Len(title))
             ws == CHOOSE n \in 1..Len(rest) :
                       /\ \A j \in 1..n : rest[j] \in Whitespace
                       /\ n < Len(rest)
                       /\ (n + 1 < Len(rest) => rest[n + 1] \notin Whitespace)
         IN trim(SubSeq(rest, ws + 1, Len(rest)))

\* String.prototype.toLowerCase on the letters the model uses
LowerChar(c) ==
    CASE c = "F" -> "f"
      [] c = "I" -> "i"
      [] c = "H" -> "h"
      [] c = "A" -> "a"
      [] c = "B" -> "b"
      [] OTHER -> c

toLowerCase(s) == [i \in 1..Len(s) |-> LowerChar(s[i])]

\* String.prototype.includes
includes(s, sub) ==
    \E i \in 0..(Len(s) - Len(sub)) : SubSeq(s, i + 1, i + Len(sub)) = sub

\* D1Adapter.isCaseClosed
isCaseClosed(lastMajorEvent) ==
    IF lastMajorEvent = Null \/ lastMajorEvent = <<>> THEN FALSE
    ELSE \/ includes(toLowerCase(lastMajorEvent), <<"f", "i", "n", "i", "s", "h", "e", "d">>)
         \/ includes(toLowerCase(lastMajorEvent),
                     <<"i", "n", "a", "d", "m", "i", "s", "s", "i", "b", "l", "e">>)

\* a JavaScript value is truthy: neither null nor the empty string
Truthy(s) == s # Null /\ s # <<>>

\* `'${x}'` in a SQL template: null is written as the text null
SqlText(s) == IF s = Null THEN <<"n", "u", "l", "l">> ELSE s

RECURSIVE escapeSQL(_)
\* escapeSQL: str.replace(/'/g, "''") (its callers handle a falsy str)
escapeSQL(s) ==
    IF s = <<>> THEN <<>>
    ELSE IF Head(s) = "'" THEN <<"'", "'">> \o escapeSQL(Tail(s))
    ELSE <<Head(s)>> \o escapeSQL(Tail(s))

RECURSIVE LiteralValue(_)
\* the value SQLite reads from the inside of a quoted literal: '' is one quote
LiteralValue(t) ==
    IF t = <<>> THEN <<>>
    ELSE IF Head(t) = "'" /\ Len(t) >= 2 /\ t[2] = "'"
         THEN <<"'">> \o LiteralValue(SubSeq(t, 3, Len(t)))
    ELSE <<Head(t)>> \o LiteralValue(Tail(t))

\* `'${escapeSQL(x)}'` in a SQL template, as the database stores it
SqlEscaped(s) == LiteralValue(escapeSQL(s))

\* `${x ? `'${escapeSQL(x)}'` : 'NULL'}` in a SQL template: SQL NULL for a
\* falsy value
SqlNullable(s) == IF Truthy(s) THEN SqlEscaped(s) ELSE Null

\* `${x ? `'${x}'` : 'NULL'}` in a SQL template (a converted date)
SqlNullableDate(s) == IF Truthy(s) THEN s ELSE Null

\* ------------------------------------------------------------------------
\* The store: the applications, events and representatives tables, and the
\* adapter's representative cache.  A store value S is a record
\*   applications    application_number -> row (the UNIQUE key of ON CONFLICT)
\*   events          application_number -> the event rows of that application
\*                   (events.application_id names the application's row; rows
\*                   are never deleted, so the id and the number are one key)
\*   representatives the representative names in id order (the id of a name
\*                   is its position; INSERT OR IGNORE keeps names unique)
\*   repCache        name -> id (this.repCache)
\*   cacheCounter    this.cacheCounter
\* The timestamps (last_checked_date, updated_at) are left out.
\* ------------------------------------------------------------------------

\* not_found_count of a row inserted without the column (saveApplication's
\* INSERT names no not_found_count)
DefaultNotFoundCount == 0

\* skip_scraping of an inserted row (no INSERT names the column)
DefaultSkipScraping == FALSE

\* the literal of markAsNotFound's CASE WHEN not_found_count + 1 >= 60
SkipThreshold == 60

\* SQL NULL in representative_id
NoRep == 0

EmptyStore ==
    [applications |-> <<>>, events |-> <<>>, representatives |-> <<>>,
     repCache |-> <<>>, cacheCounter |-> 0]

\* a variant whose WHERE clause is lost: LIMIT 1 answers the first row
RepIdMutant(reps, name) == IF reps = <<>> THEN NoRep ELSE 1

\* SELECT id FROM representatives WHERE name = '${escapeSQL(name)}' (0 when
\* no row has the name)
RepId(reps, name) ==
    IF \E i \in 1..Len(reps) : reps[i] = SqlEscaped(name)
    THEN CHOOSE i \in 1..Len(reps) : reps[i] = SqlEscaped(name)
    ELSE NoRep

\* a variant that inserts the name whether or not a row has it
InsertRepOrIgnoreMutant(reps, name) == Append(reps, SqlEscaped(name))

\* INSERT OR IGNORE INTO representatives (name) VALUES ('${escapeSQL(name)}')
InsertRepOrIgnore(reps, name) ==
    IF RepId(reps, name) # NoRep THEN reps ELSE Append(reps, SqlEscaped(name))

\* `data.representant && data.representant.trim()`
HasRepresentative(data) ==
    Truthy(data.representant) /\ trim(data.representant) # <<>>

\* extractCountry(data.applicationTitle) throws a TypeError on a null title
Malformed(data) == data.applicationTitle = Null

\* D1Adapter.findOrCreateRepresentative: the possible outcomes
\* [S, id, thrown].  A cache hit answers without a statement; otherwise the row
\* is looked up, inserted if absent (INSERT OR IGNORE) and read back.  Either
\* of the last two statements may throw: the insert before it changed anything,
\* the read after the row was inserted.  (A throwing first lookup is caught and
\* leads to the same insert.)
findOrCreateRepresentative(S, name) ==
    IF name \in DOMAIN S.repCache
    THEN {[S |-> S, id |-> S.repCache[name], thrown |-> FALSE]}
    ELSE LET reps == InsertRepOrIgnore(S.representatives, name)
             inserted == [S EXCEPT !.representatives = reps]
             cached == [inserted EXCEPT
                           !.repCache = (name :> RepId(reps, name)) @@ S.repCache]
         IN {[S |-> cached, id |-> RepId(reps, name), thrown |-> FALSE],
             [S |-> S, id |-> NoRep, thrown |-> TRUE],
             [S |-> inserted, id |-> NoRep, thrown |-> TRUE]}

\* D1Adapter.flushCacheIfNeeded
flushCacheIfNeeded(S, interval) ==
    IF S.cacheCounter + 1 >= interval
    THEN [S EXCEPT !.repCache = <<>>, !.cacheCounter = 0]
    ELSE [S EXCEPT !.cacheCounter = S.cacheCounter + 1]

\* the VALUES of the application INSERT, common to both paths
ApplicationValues(data, repId) ==
    [application_title |-> SqlEscaped(data.applicationTitle),
     country |-> SqlNullable(extractCountry(data.applicationTitle)),
     date_introduction |-> SqlText(convertDate(data.dateIntroduction)),
     representative_id |-> repId,
     representative_name |-> SqlNullable(data.representant),
     last_major_event |-> SqlNullable(data.lastMajorEvent),
     last_major_event_date |-> SqlNullableDate(convertDate(data.lastMajorEventDate)),
     is_closed |-> isCaseClosed(data.lastMajorEvent)]

\* a variant in which the upsert leaves not_found_count alone
CountAfterUpsertMutant(old) == old

\* not_found_count after ON CONFLICT(application_number) DO UPDATE
CountAfterUpsert(old) == 0

\* INSERT INTO applications ... ON CONFLICT(application_number) DO UPDATE SET
\* ...: a new row takes insertCount and the default skip_scraping; an existing
\* row is overwritten, its not_found_count reset and its skip_scraping kept.
UpsertApplication(S, number, values, insertCount) ==
    LET exists == number \in DOMAIN S.applications
        row == [application_title |-> values.application_title,
                country |-> values.country,
                date_introduction |-> values.date_introduction,
                representative_id |-> values.representative_id,
                representative_name |-> values.representative_name,
                last_major_event |-> values.last_major_event,
                last_major_event_date |-> values.last_major_event_date,
                is_closed |-> values.is_closed,
                not_found_count |->
                    IF exists
                    THEN CountAfterUpsert(S.applications[number].not_found_count)
                    ELSE insertCount,
                skip_scraping |->
                    IF exists THEN S.applications[number].skip_scraping
                    ELSE DefaultSkipScraping]
    IN [S EXCEPT
           !.applications = (number :> row) @@ S.applications,
           !.events = IF exists THEN S.events ELSE (number :> <<>>) @@ S.events]

\* is_last_event of the i-th of n events
IsLastEvent(i, n) == i = n

\* the rows of the multi-row INSERT INTO events
EventRows(majorEventsList) ==
    [i \in 1..Len(majorEventsList) |->
        [event_date |-> SqlText(convertDate(majorEventsList[i].eventDate)),
         description |-> SqlEscaped(majorEventsList[i].description),
         is_last_event |-> IsLastEvent(i, Len(majorEventsList))]]

\* a variant in which the events of the earlier fetch are not deleted
DeleteEventsMutant(S, number) == S

\* a variant whose DELETE lost its WHERE clause: the events of every case go
DeleteEventsUnscoped(S, number) ==
    [S EXCEPT !.events = [n \in DOMAIN S.events |-> <<>>]]

\* DELETE FROM events WHERE application_id = (the application's id)
DeleteEvents(S, number) ==
    IF number \in DOMAIN S.applications
    THEN [S EXCEPT !.events[number] = <<>>]
    ELSE S

\* INSERT INTO events (...) VALUES rows
InsertEvents(S, number, rows) ==
    IF number \in DOMAIN S.applications
    THEN [S EXCEPT !.events[number] = S.events[number] \o rows]
    ELSE S

\* ------------------------------------------------------------------------
\* D1Adapter.saveApplication
\* ------------------------------------------------------------------------

\* steps 2-6 of saveApplication once the representative is resolved: the
\* possible outcomes [S, ok].  executeSQL may throw at each statement, which
\* the catch turns into `return false`; what was executed before stays.
\*  - a null title throws in extractCountry before any statement;
\*  - the application upsert;
\*  - the SELECT of the application id;
\*  - the events command, DELETE then INSERT in one executeSQL without a
\*    transaction: when it throws the DELETE may or may not have been applied.
\*    With no events the INSERT has an empty VALUES list, a syntax error: the
\*    command always throws.
SaveResolved(S, data, repId, interval) ==
    IF Malformed(data) THEN {[S |-> S, ok |-> FALSE]}
    ELSE LET number == data.applicationNumber
             upserted == UpsertApplication(S, number, ApplicationValues(data, repId),
                                           DefaultNotFoundCount)
             deleted == DeleteEvents(upserted, number)
             replaced == InsertEvents(deleted, number, EventRows(data.majorEventsList))
             failures == {[S |-> S, ok |-> FALSE],
                          [S |-> upserted, ok |-> FALSE],
                          [S |-> deleted, ok |-> FALSE]}
         IN IF data.majorEventsList = <<>>
            THEN failures
            ELSE failures \cup {[S |-> flushCacheIfNeeded(replaced, interval), ok |-> TRUE]}

\* D1Adapter.saveApplication(data): the possible outcomes [S, ok]
saveApplication(S, data, interval) ==
    IF HasRepresentative(data)
    THEN UNION {IF r.thrown
                THEN {[S |-> r.S, ok |-> FALSE]}
                ELSE SaveResolved(r.S, data, r.id, interval) :
                r \in findOrCreateRepresentative(S, data.representant)}
    ELSE SaveResolved(S, data, NoRep, interval)

\* ------------------------------------------------------------------------
\* D1Adapter.buildBatchSQLWithReps: the script as a sequence of statements
\* ------------------------------------------------------------------------

RECURSIVE Dedup(_)
\* [...new Set(names)]: first occurrences, in order
Dedup(names) ==
    IF names = <<>> THEN <<>>
    ELSE LET rest == Dedup(SubSeq(names, 1, Len(names) - 1))
             last == names[Len(names)]
         IN IF \E i \in 1..Len(rest) : rest[i] = last THEN rest ELSE Append(rest, last)

RECURSIVE SelectSeqBy(_, _)
\* Array.prototype.filter with the predicate given as the set of kept values
SelectSeqBy(seq, keep) ==
    IF seq = <<>> THEN <<>>
    ELSE IF Head(seq) \in keep
         THEN <<Head(seq)>> \o SelectSeqBy(Tail(seq), keep)
         ELSE SelectSeqBy(Tail(seq), keep)

\* casesData.map(d => d.representant).filter(r => r && r.trim()), deduplicated
uniqueReps(casesData) ==
    LET named == SelectSeqBy(casesData, {d \in {casesData[i] : i \in 1..Len(casesData)} :
                                            HasRepresentative(d)})
    IN Dedup([i \in 1..Len(named) |-> named[i].representant])

\* the statement pushed first when a representative exists
RepStatements(casesData) ==
    IF uniqueReps(casesData) = <<>> THEN <<>>
    ELSE <<[kind |-> "reps", names |-> uniqueReps(casesData)]>>

RECURSIVE WellFormedMutant(_)
\* a variant in which the first record that throws ends the loop
WellFormedMutant(casesData) ==
    IF casesData = <<>> \/ Malformed(Head(casesData)) THEN <<>>
    ELSE <<Head(casesData)>> \o WellFormedMutant(Tail(casesData))

\* the records the loop does not skip (the catch skips a record whose
\* conversion throws, before anything of it is pushed)
WellFormed(casesData) ==
    SelectSeqBy(casesData, {d \in {casesData[i] : i \in 1..Len(casesData)} :
                               ~Malformed(d)})

\* appStatements: one upsert per record kept, the representative by subquery
AppStatements(casesData) ==
    LET kept == WellFormed(casesData)
    IN [i \in 1..Len(kept) |->
           [kind |-> "upsert", number |-> kept[i].applicationNumber,
            values |-> ApplicationValues(kept[i], NoRep),
            repName |-> IF HasRepresentative(kept[i])
                        THEN kept[i].representant ELSE Null]]

RECURSIVE EventStatements(_)
\* eventStatements: per record kept a DELETE, then an INSERT when it has events
EventStatements(casesData) ==
    IF casesData = <<>> THEN <<>>
    ELSE LET d == Head(casesData)
             del == <<[kind |-> "delete", number |-> d.applicationNumber]>>
             ins == IF d.majorEventsList # <<>>
                    THEN <<[kind |-> "insert", number |-> d.applicationNumber,
                            rows |-> EventRows(d.majorEventsList)]>>
                    ELSE <<>>
         IN IF Malformed(d) THEN EventStatements(Tail(casesData))
            ELSE del \o ins \o EventStatements(Tail(casesData))

\* a variant in which the event statements are pushed before the upserts
buildBatchSQLWithRepsMutant(casesData) ==
    RepStatements(casesData) \o EventStatements(casesData) \o AppStatements(casesData)

\* D1Adapter.buildBatchSQLWithReps(casesData): sqlStatements, then
\* appStatements, then eventStatements
buildBatchSQLWithReps(casesData) ==
    RepStatements(casesData) \o AppStatements(casesData) \o EventStatements(casesData)

RECURSIVE InsertRepsOrIgnore(_, _)
InsertRepsOrIgnore(reps, names) ==
    IF names = <<>> THEN reps
    ELSE InsertRepsOrIgnore(InsertRepOrIgnore(reps, Head(names)), Tail(names))

\* one statement of a batch script executed on the store
ExecStatement(S, st) ==
    CASE st.kind = "reps" ->
            [S EXCEPT !.representatives = InsertRepsOrIgnore(S.representatives, st.names)]
      [] st.kind = "upsert" ->
            UpsertApplication(S, st.number,
                [st.values EXCEPT !.representative_id =
                    IF st.repName = Null THEN NoRep
                    ELSE RepId(S.representatives, st.repName)],
                0)
      [] st.kind = "delete" -> DeleteEvents(S, st.number)
      [] st.kind = "insert" -> InsertEvents(S, st.number, st.rows)

RECURSIVE ExecScript(_, _)
\* the script executed statement by statement, in order
ExecScript(S, script) ==
    IF script = <<>> THEN S
    ELSE ExecScript(ExecStatement(S, Head(script)), Tail(script))

\* ------------------------------------------------------------------------
\* D1Adapter.saveBatch
\* ------------------------------------------------------------------------

\* importAPI.uploadSQL(batchSQL): the possible outcomes [S, raised].  It
\* returns after the import completed, or raises: before ingestion (nothing
\* applied) or while polling an import that the server completed.
uploadSQL(S, script) ==
    {[S |-> ExecScript(S, script), raised |-> FALSE],
     [S |-> S, raised |-> TRUE],
     [S |-> ExecScript(S, script), raised |-> TRUE]}

\* a variant in which the fallback stops at the first record that fails
ContinueAfterMutant(saved) == saved

\* the fallback loop continues with the next record after a failed save
ContinueAfter(saved) == TRUE

RECURSIVE Fallback(_, _, _)
\* the fallback loop `for (const data of casesData)`: the possible outcomes
\* [S, success, failed, calls], calls being the records handed to
\* saveApplication, in order, each with what the call returned and the store
\* it left
Fallback(acc, casesData, interval) ==
    IF casesData = <<>> THEN {acc}
    ELSE UNION {LET next == [S |-> o.S,
                             success |-> acc.success + (IF o.ok THEN 1 ELSE 0),
                             failed |-> acc.failed + (IF o.ok THEN 0 ELSE 1),
                             calls |-> Append(acc.calls,
                                              [data |-> Head(casesData), ok |-> o.ok,
                                               S |-> o.S])]
                IN IF ContinueAfter(o.ok)
                   THEN Fallback(next, Tail(casesData), interval)
                   ELSE {next} :
                o \in saveApplication(acc.S, Head(casesData), interval)}

\* D1Adapter.saveBatch(casesData): the possible outcomes
\* [S, success, failed, calls, bulk]; bulk is "none" (no importAPI), "ok"
\* (the upload returned) or "raised" (the upload threw, fallback taken)
saveBatch(S, casesData, hasImportAPI, interval) ==
    LET start(T) == [S |-> T, success |-> 0, failed |-> 0, calls |-> <<>>]
        tag(outs, b) == {[S |-> o.S, success |-> o.success, failed |-> o.failed,
                          calls |-> o.calls, bulk |-> b] : o \in outs}
    IN IF casesData = <<>>
       THEN {[S |-> S, success |-> 0, failed |-> 0, calls |-> <<>>, bulk |-> "none"]}
       ELSE IF hasImportAPI
       THEN UNION {IF u.raised
                   THEN tag(Fallback(start(u.S), casesData, interval), "raised")
                   ELSE {[S |-> u.S, success |-> Len(casesData), failed |-> 0,
                          calls |-> <<>>, bulk |-> "ok"]} :
                   u \in uploadSQL(S, buildBatchSQLWithReps(casesData))}
       ELSE tag(Fallback(start(S), casesData, interval), "none")

\* ------------------------------------------------------------------------
\* D1Adapter.markAsNotFound
\* ------------------------------------------------------------------------

\* a variant in which the flag follows the counter instead of latching
SkipAfterMarkMutant(count, skip) == count + 1 >= SkipThreshold

\* skip_scraping = CASE WHEN not_found_count + 1 >= 60 THEN 1 ELSE skip_scraping END
SkipAfterMark(count, skip) == IF count + 1 >= SkipThreshold THEN TRUE ELSE skip

\* not_found_count = not_found_count + 1
CountAfterMark(count) == count + 1

\* the UPDATE of markAsNotFound: the row with the number, if there is one
MarkRow(S, number) ==
    IF number \in DOMAIN S.applications
    THEN [S EXCEPT !.applications[number] =
             [@ EXCEPT !.not_found_count = CountAfterMark(@),
                       !.skip_scraping =
                           SkipAfterMark(S.applications[number].not_found_count, @)]]
    ELSE S

\* D1Adapter.markAsNotFound(applicationNumber, applicationYear): the possible
\* outcomes [S, ok]; executeSQL may throw, which the catch turns into false
markAsNotFound(S, number) ==
    {[S |-> MarkRow(S, number), ok |-> TRUE], [S |-> S, ok |-> FALSE]}

\* ------------------------------------------------------------------------
\* State
\* ------------------------------------------------------------------------
VARIABLES
    \* the D1 database
    applications, events, representatives,
    \* D1Adapter: this.repCache, this.cacheCounter, this.CACHE_FLUSH_INTERVAL,
    \* this.importAPI (whether the constructor found the credentials)
    repCache, cacheCounter, CACHE_FLUSH_INTERVAL, importAPI,
    \* MonthlyECHRScraper: the configuration
    startYear, maxYear, maxConsecutiveSkips, startNumber, BATCH_ATTEMPTS,
    \* MonthlyECHRScraper: this.batchQueue, this.attemptCounter, this.stats
    batchQueue, attemptCounter, stats,
    \* MonthlyECHRScraper.run: its locals and its position
    currentYear, currentNumber, consecutiveSkips, pc,
    \* history: the records the fetcher returned, the batches handed to
    \* saveBatch, the outcomes of the attempts of the current year segment, the
    \* adapter calls made, and what the last step did
    fetched, flushes, segOutcomes, calls, last

vars ==
    <<applications, events, representatives, repCache, cacheCounter,
      CACHE_FLUSH_INTERVAL, importAPI, startYear, maxYear, maxConsecutiveSkips,
      startNumber, BATCH_ATTEMPTS, batchQueue, attemptCounter, stats, currentYear,
      currentNumber, consecutiveSkips, pc, fetched, flushes, segOutcomes, calls, last>>

configVars ==
    <<CACHE_FLUSH_INTERVAL, importAPI, startYear, maxYear, maxConsecutiveSkips,
      startNumber, BATCH_ATTEMPTS>>

crawlVars ==
    <<batchQueue, attemptCounter, stats, currentYear, currentNumber,
      consecutiveSkips, pc, fetched, flushes, segOutcomes>>

Store ==
    [applications |-> applications, events |-> events,
     representatives |-> representatives, repCache |-> repCache,
     cacheCounter |-> cacheCounter]

SetStore(S) ==
    /\ applications' = S.applications
    /\ events' = S.events
    /\ representatives' = S.representatives
    /\ repCache' = S.repCache
    /\ cacheCounter' = S.cacheCounter

\* ------------------------------------------------------------------------
\* The records the fetcher returns (scrapeECHRApplication)
\* ------------------------------------------------------------------------
TitleAvB == <<"A", " ", "v", ".", " ", "B">>

RepA == <<"R", "'", "a">>

RepB == <<"R", "b">>

RepC == <<"R", "c">>

EventHearing ==
    [description |-> <<"H", "e", "a", "r", "i", "n", "g", "'", "s">>,
     eventDate |-> <<"0", "5", "/", "0", "3", "/", "2", "0", "2", "0">>]

EventFinished ==
    [description |-> <<"F", "i", "n", "i", "s", "h", "e", "d">>,
     eventDate |-> <<"2", "0", "2", "1", "-", "0", "1", "-", "0", "2">>]

EventLists == {<<>>, <<EventHearing>>, <<EventHearing, EventFinished>>}

\* the object scrapeECHRApplication returns: the last event is taken from the
\* last element of the list
Data(number, title, rep, list) ==
    [applicationNumber |-> number,
     applicationTitle |-> title,
     dateIntroduction |-> <<"1", "/", "2", "/", "2", "0", "1", "9">>,
     representant |-> rep,
     lastMajorEvent |-> IF list = <<>> THEN Null ELSE list[Len(list)].description,
     lastMajorEventDate |-> IF list = <<>> THEN Null ELSE list[Len(list)].eventDate,
     majorEventsList |-> list]

\* what the monthly crawl's fetcher returns for an identifier
CrawlData(number, year) ==
    {Data(<<number, year>>, TitleAvB, RepA, <<EventHearing>>)}

\* the cases of testSaveToD1 (152/18 and 1/18)
AppNumbers == {<<152, 18>>, <<1, 18>>}

\* the records handed to the adapter directly
AdapterData ==
    {Data(n, TitleAvB, Null, <<>>) : n \in AppNumbers}
    \cup {Data(n, TitleAvB, RepA, l) : n \in AppNumbers, l \in EventLists \ {<<>>}}

\* batches of one or two records with distinct application numbers
AdapterBatches ==
    {<<d>> : d \in AdapterData}
    \cup {<<d, e>> : d \in {x \in AdapterData : x.applicationNumber = <<152, 18>>},
                     e \in {x \in AdapterData : x.applicationNumber = <<1, 18>>}}

\* ------------------------------------------------------------------------
\* MonthlyECHRScraper
\* ------------------------------------------------------------------------

\* the first year of the default configuration
DefaultStartYear == 19

\* a variant in which the segment runs one skip longer
SegmentOpenMutant(skips, max) == skips <= max

\* `while (consecutiveSkips < this.maxConsecutiveSkips)`
SegmentOpen(skips, max) == skips < max

\* a variant in which only the attempts without a record are counted
CounterAfterAttemptMutant(counter, outcome) ==
    IF outcome = "found" THEN counter ELSE counter + 1

\* this.attemptCounter after one attempt: `this.attemptCounter++` at the top of
\* the try block, and once more in the catch block when the fetch threw
CounterAfterAttempt(counter, outcome) ==
    IF outcome = "error" THEN counter + 2 ELSE counter + 1

\* consecutiveSkips after one attempt
SkipsAfterAttempt(skips, outcome) ==
    IF outcome = "found" THEN 0 ELSE skips + 1

\* a variant in which the flush waits for the counter to pass the threshold
ShouldFlushMutant(counter, threshold) == counter > threshold

\* `if (this.attemptCounter >= this.BATCH_ATTEMPTS)`
ShouldFlush(counter, threshold) == counter >= threshold

\* a variant in which a fetch that threw is counted as an error and as not
\* found
StatsErrorCountedTwice(st, outcome) ==
    [found |-> st.found + (IF outcome = "found" THEN 1 ELSE 0),
     notFound |-> st.notFound + (IF outcome = "found" THEN 0 ELSE 1),
     errors |-> st.errors + (IF outcome = "error" THEN 1 ELSE 0),
     totalChecked |-> st.totalChecked + 1]

\* a variant in which a fetch that threw is counted as not found
StatsAfterAttemptMutant(st, outcome) ==
    [found |-> st.found + (IF outcome = "found" THEN 1 ELSE 0),
     notFound |-> st.notFound + (IF outcome = "found" THEN 0 ELSE 1),
     errors |-> st.errors,
     totalChecked |-> st.totalChecked + 1]

\* this.stats after one attempt
StatsAfterAttempt(st, outcome) ==
    [found |-> st.found + (IF outcome = "found" THEN 1 ELSE 0),
     notFound |-> st.notFound + (IF outcome = "notfound" THEN 1 ELSE 0),
     errors |-> st.errors + (IF outcome = "error" THEN 1 ELSE 0),
     totalChecked |-> st.totalChecked + 1]

\* a variant in which the flush keeps the queue
AfterFlushMutant(queue, counter) == [batchQueue |-> queue, attemptCounter |-> 0]

\* the queue and counter flushBatch leaves after saveBatch returned
AfterFlush(queue, counter) == [batchQueue |-> <<>>, attemptCounter |-> 0]

\* MonthlyECHRScraper.flushBatch: the possible outcomes
\* [S, batchQueue, attemptCounter, handed]; handed is the batch given to
\* d1.saveBatch, empty when the queue was empty and flushBatch returned early
flushBatch(S, queue, counter, hasImportAPI, interval) ==
    IF queue = <<>>
    THEN {[S |-> S, batchQueue |-> queue, attemptCounter |-> counter, handed |-> <<>>]}
    ELSE {[S |-> o.S,
           batchQueue |-> AfterFlush(queue, counter).batchQueue,
           attemptCounter |-> AfterFlush(queue, counter).attemptCounter,
           handed |-> queue] :
          o \in saveBatch(S, queue, hasImportAPI, interval)}

\* a variant in which the next year starts at the configured startNumber
NextYearNumberMutant == startNumber

\* currentNumber at the start of the next year: `currentNumber = 1`
NextYearNumber == 1

\* what a flush adds to the history of batches handed to saveBatch
Flushed(handed, cause, counter) ==
    IF handed = <<>> THEN flushes
    ELSE Append(flushes, [batch |-> handed, cause |-> cause, counter |-> counter])

\* a variant in which the record is put in front of the queue
PushMutant(queue, data) == <<data>> \o queue

\* `this.batchQueue.push(data)`
Push(queue, data) == Append(queue, data)

\* the identifiers an attempt hands to d1.markAsNotFound: run() does not call
\* it, in the not-found branch or in the catch block
MarkedByAttempt(outcome, number, year) == <<>>

\* one iteration of the inner loop of run(): one fetch attempt on
\* currentNumber/currentYear with the given outcome, the threshold flush when
\* the counter asks for it, and the advance to the next number
AttemptWith(outcome, data) ==
    LET queue1 == IF outcome = "found" THEN Push(batchQueue, data) ELSE batchQueue
        counter1 == CounterAfterAttempt(attemptCounter, outcome)
        flushNow == ShouldFlush(counter1, BATCH_ATTEMPTS)
        outs == IF flushNow
                THEN flushBatch(Store, queue1, counter1, importAPI, CACHE_FLUSH_INTERVAL)
                ELSE {[S |-> Store, batchQueue |-> queue1, attemptCounter |-> counter1,
                       handed |-> <<>>]}
    IN /\ pc = "run"
       /\ currentYear <= maxYear
       /\ SegmentOpen(consecutiveSkips, maxConsecutiveSkips)
       /\ stats.totalChecked < MaxChecked
       /\ \E o \in outs :
            /\ SetStore(o.S)
            /\ batchQueue' = o.batchQueue
            /\ attemptCounter' = o.attemptCounter
            /\ flushes' = Flushed(o.handed, "threshold", counter1)
            /\ last' = [op |-> outcome, number |-> currentNumber, year |-> currentYear,
                        skipsBefore |-> consecutiveSkips,
                        counterBefore |-> attemptCounter, counterAfter |-> counter1,
                        queueBefore |-> batchQueue, flushCalled |-> flushNow,
                        handed |-> o.handed, queued |-> queue1,
                        statsBefore |-> stats,
                        marked |-> MarkedByAttempt(outcome, currentNumber, currentYear)]
       /\ stats' = StatsAfterAttempt(stats, outcome)
       /\ consecutiveSkips' = SkipsAfterAttempt(consecutiveSkips, outcome)
       /\ fetched' = IF outcome = "found" THEN Append(fetched, data) ELSE fetched
       /\ segOutcomes' = Append(segOutcomes, outcome)
       /\ currentNumber' = currentNumber + 1
       /\ UNCHANGED <<currentYear, pc, calls, configVars>>

\* scrapeECHRApplication returned a record
AttemptFound ==
    \E data \in CrawlData(currentNumber, currentYear) : AttemptWith("found", data)

\* scrapeECHRApplication returned null
AttemptNotFound == \E data \in {Null} : AttemptWith("notfound", data)

\* scrapeECHRApplication threw (chromium.launch and browser.close are outside
\* its try block)
AttemptError == \E data \in {Null} : AttemptWith("error", data)

\* the inner loop ended: flush, `currentYear++`, `currentNumber = 1`, and the
\* outer loop's `let consecutiveSkips = 0`
EndSegment ==
    /\ pc = "run"
    /\ currentYear <= maxYear
    /\ ~SegmentOpen(consecutiveSkips, maxConsecutiveSkips)
    /\ \E o \in flushBatch(Store, batchQueue, attemptCounter, importAPI,
                           CACHE_FLUSH_INTERVAL) :
         /\ SetStore(o.S)
         /\ batchQueue' = o.batchQueue
         /\ attemptCounter' = o.attemptCounter
         /\ flushes' = Flushed(o.handed, "segment", attemptCounter)
         /\ last' = [op |-> "endSegment", number |-> 0, year |-> currentYear,
                     skipsBefore |-> consecutiveSkips,
                     counterBefore |-> attemptCounter, counterAfter |-> attemptCounter,
                     queueBefore |-> batchQueue, flushCalled |-> TRUE,
                     handed |-> o.handed, outcomes |-> segOutcomes]
    /\ currentYear' = currentYear + 1
    /\ currentNumber' = NextYearNumber
    /\ consecutiveSkips' = 0
    /\ segOutcomes' = <<>>
    /\ UNCHANGED <<stats, fetched, pc, calls, configVars>>

\* the outer loop ended: the last flush and printFinalStats
EndRun ==
    /\ pc = "run"
    /\ currentYear > maxYear
    /\ \E o \in flushBatch(Store, batchQueue, attemptCounter, importAPI,
                           CACHE_FLUSH_INTERVAL) :
         /\ SetStore(o.S)
         /\ batchQueue' = o.batchQueue
         /\ attemptCounter' = o.attemptCounter
         /\ flushes' = Flushed(o.handed, "final", attemptCounter)
         /\ last' = [op |-> "endRun", number |-> 0, year |-> currentYear,
                     skipsBefore |-> consecutiveSkips,
                     counterBefore |-> attemptCounter, counterAfter |-> attemptCounter,
                     queueBefore |-> batchQueue, flushCalled |-> TRUE,
                     handed |-> o.handed]
    /\ pc' = "done"
    /\ UNCHANGED <<stats, fetched, currentYear, currentNumber, consecutiveSkips,
                   segOutcomes, calls, configVars>>

\* the state after `new MonthlyECHRScraper(CONFIG)` and the first two
\* assignments of run(), for the configurations explored
Init ==
    /\ applications = <<>>
    /\ events = <<>>
    /\ representatives = <<>>
    /\ repCache = <<>>
    /\ cacheCounter = 0
    /\ CACHE_FLUSH_INTERVAL = 2
    /\ importAPI \in BOOLEAN
    /\ startYear = DefaultStartYear
    /\ maxYear = startYear + MaxYearSpan
    /\ maxConsecutiveSkips \in 1..MaxSkips
    /\ startNumber \in 1..MaxStartNumber
    /\ BATCH_ATTEMPTS \in 1..MaxBatchAttempts
    /\ batchQueue = <<>>
    /\ attemptCounter = 0
    /\ stats = [found |-> 0, notFound |-> 0, errors |-> 0, totalChecked |-> 0]
    /\ currentYear = startYear
    /\ currentNumber = startNumber
    /\ consecutiveSkips = 0
    /\ pc = "run"
    /\ fetched = <<>>
    /\ flushes = <<>>
    /\ segOutcomes = <<>>
    /\ calls = 0
    /\ last = [op |-> "init"]

Next ==
    \/ AttemptFound
    \/ AttemptNotFound
    \/ AttemptError
    \/ EndSegment
    \/ EndRun

\* the monthly crawl
Spec == Init /\ [][Next]_vars

\* ------------------------------------------------------------------------
\* The adapter called directly (testSaveToD1, WeeklyECHRScraper.run)
\* ------------------------------------------------------------------------

\* what the store holds of an application before a call
Snapshot(number) ==
    IF number \in DOMAIN applications
    THEN [existed |-> TRUE,
          count |-> applications[number].not_found_count,
          skip |-> applications[number].skip_scraping,
          events |-> Len(events[number])]
    ELSE [existed |-> FALSE, count |-> 0, skip |-> FALSE, events |-> 0]

\* `await d1.saveApplication(data)`
DoSaveApplication(data) ==
    \E o \in saveApplication(Store, data, CACHE_FLUSH_INTERVAL) :
        /\ SetStore(o.S)
        /\ last' = [op |-> "saveApplication", data |-> data, ok |-> o.ok,
                    before |-> <<Snapshot(data.applicationNumber)>>]

\* `await d1.saveBatch(casesData)` (the log keeps, of each call of the
\* fallback loop, the record and what the call returned)
DoSaveBatch(casesData) ==
    \E o \in saveBatch(Store, casesData, importAPI, CACHE_FLUSH_INTERVAL) :
        /\ SetStore(o.S)
        /\ last' = [op |-> "saveBatch", batch |-> casesData, bulk |-> o.bulk,
                    calls |-> [i \in 1..Len(o.calls) |->
                                 [data |-> o.calls[i].data, ok |-> o.calls[i].ok]],
                    success |-> o.success, failed |-> o.failed,
                    before |-> [i \in 1..Len(casesData) |->
                                   Snapshot(casesData[i].applicationNumber)]]

\* `await d1.markAsNotFound(number, year)`
DoMarkAsNotFound(number) ==
    \E o \in markAsNotFound(Store, number) :
        /\ SetStore(o.S)
        /\ last' = [op |-> "markAsNotFound", number |-> number, ok |-> o.ok,
                    before |-> <<Snapshot(number)>>]

SaveApplicationCall ==
    /\ pc = "adapter"
    /\ calls < MaxCalls
    /\ \E data \in AdapterData : DoSaveApplication(data)
    /\ calls' = calls + 1
    /\ UNCHANGED <<crawlVars, configVars>>

SaveBatchCall ==
    /\ pc = "adapter"
    /\ calls < MaxCalls
    /\ \E casesData \in AdapterBatches : DoSaveBatch(casesData)
    /\ calls' = calls + 1
    /\ UNCHANGED <<crawlVars, configVars>>

MarkAsNotFoundCall ==
    /\ pc = "adapter"
    /\ calls < MaxCalls
    /\ \E number \in AppNumbers : DoMarkAsNotFound(number)
    /\ calls' = calls + 1
    /\ UNCHANGED <<crawlVars, configVars>>

\* the state after `new D1Adapter('echr-db')` on an empty database
InitAdapter ==
    /\ applications = <<>>
    /\ events = <<>>
    /\ representatives = <<>>
    /\ repCache = <<>>
    /\ cacheCounter = 0
    /\ CACHE_FLUSH_INTERVAL = 2
    /\ importAPI \in BOOLEAN
    /\ startYear = DefaultStartYear
    /\ maxYear = DefaultStartYear
    /\ maxConsecutiveSkips = 1
    /\ startNumber = 1
    /\ BATCH_ATTEMPTS = 1
    /\ batchQueue = <<>>
    /\ attemptCounter = 0
    /\ stats = [found |-> 0, notFound |-> 0, errors |-> 0, totalChecked |-> 0]
    /\ currentYear = startYear
    /\ currentNumber = startNumber
    /\ consecutiveSkips = 0
    /\ pc = "adapter"
    /\ fetched = <<>>
    /\ flushes = <<>>
    /\ segOutcomes = <<>>
    /\ calls = 0
    /\ last = [op |-> "init"]

NextAdapter ==
    \/ SaveApplicationCall
    \/ SaveBatchCall
    \/ MarkAsNotFoundCall

\* any sequence of adapter calls on the two cases
SpecAdapter == InitAdapter /\ [][NextAdapter]_vars

\* ------------------------------------------------------------------------
\* One persisted case checked again and again (the weekly crawl's calls on a
\* subscribed case): not-found marks up to and beyond the skip threshold,
\* and refetches through either path
\* ------------------------------------------------------------------------
RecheckedNumber == <<1, 18>>

RecheckedData ==
    {Data(RecheckedNumber, TitleAvB, Null, <<EventHearing>>),
     Data(RecheckedNumber, TitleAvB, RepA, <<EventHearing, EventFinished>>)}

RecheckMark ==
    /\ pc = "adapter"
    /\ (RecheckedNumber \in DOMAIN applications
          => applications[RecheckedNumber].not_found_count < SkipThreshold + MarksBeyond)
    /\ DoMarkAsNotFound(RecheckedNumber)
    /\ UNCHANGED <<crawlVars, configVars, calls>>

RecheckSave ==
    /\ pc = "adapter"
    /\ \E data \in RecheckedData : DoSaveApplication(data)
    /\ UNCHANGED <<crawlVars, configVars, calls>>

RecheckSaveBatch ==
    /\ pc = "adapter"
    /\ \E data \in RecheckedData : DoSaveBatch(<<data>>)
    /\ UNCHANGED <<crawlVars, configVars, calls>>

NextRecheck ==
    \/ RecheckMark
    \/ RecheckSave
    \/ RecheckSaveBatch

SpecRecheck == InitAdapter /\ [][NextRecheck]_vars

\* ------------------------------------------------------------------------
\* Properties of the monthly crawl (checked under Spec)
\* ------------------------------------------------------------------------
AttemptOps == {"found", "notfound", "error"}

\* the last step was a fetch attempt
IsAttempt == last.op \in AttemptOps

RECURSIVE TrailingSkips(_)
\* the number of outcomes other than found at the end of a sequence of outcomes
TrailingSkips(outcomes) ==
    IF outcomes = <<>> \/ outcomes[Len(outcomes)] = "found" THEN 0
    ELSE 1 + TrailingSkips(SubSeq(outcomes, 1, Len(outcomes) - 1))

RECURSIVE Flat(_)
\* the batches handed to saveBatch, one after the other
Flat(log) ==
    IF log = <<>> THEN <<>> ELSE log[1].batch \o Flat(Tail(log))

\* the record the last attempt found, as a sequence of zero or one record
FoundNow == IF last.op = "found" THEN <<fetched[Len(fetched)]>> ELSE <<>>

\* C1: a year segment ends exactly at the first attempt after which the
\* consecutive-skip count equals maxConsecutiveSkips.  The count is the number
\* of attempts without a record since the last found one of the segment; an
\* attempt is made only while it is below maxConsecutiveSkips, a found record
\* resets it to 0, any other outcome adds 1; the segment that ends has its
\* last maxConsecutiveSkips attempts without a record and no earlier run of
\* that length; the year then advances by one and the count restarts at 0.
C1_SegmentEndsAtThreshold ==
    /\ consecutiveSkips = TrailingSkips(segOutcomes)
    /\ consecutiveSkips <= maxConsecutiveSkips
    /\ IsAttempt => last.skipsBefore < maxConsecutiveSkips
    /\ last.op = "found" => consecutiveSkips = 0
    /\ last.op \in {"notfound", "error"} => consecutiveSkips = last.skipsBefore + 1
    /\ last.op = "endSegment" =>
         /\ last.skipsBefore = maxConsecutiveSkips
         /\ TrailingSkips(last.outcomes) = maxConsecutiveSkips
         /\ \A n \in 0..(Len(last.outcomes) - 1) :
              TrailingSkips(SubSeq(last.outcomes, 1, n)) < maxConsecutiveSkips
         /\ currentYear = last.year + 1
         /\ consecutiveSkips = 0
         /\ segOutcomes = <<>>

\* C1 witness: maxConsecutiveSkips = 3 and the outcomes found, not found, not
\* found, not found ended the first year after the 4th attempt
C1_Witness ==
    /\ last.op = "endSegment"
    /\ maxConsecutiveSkips = 3
    /\ last.outcomes = <<"found", "notfound", "notfound", "notfound">>
    /\ currentYear = startYear + 1

\* the last step was the first attempt of a year segment
FirstOfSegment == IsAttempt /\ Len(segOutcomes) = 1

C3_ThresholdFlush ==
    /\ (IsAttempt /\ last.handed # <<>>) => last.counterAfter >= BATCH_ATTEMPTS
    /\ (IsAttempt /\ last.counterAfter >= BATCH_ATTEMPTS) =>
         /\ last.handed = last.queueBefore \o FoundNow
         /\ batchQueue = <<>>
    /\ (IsAttempt /\ last.counterAfter < BATCH_ATTEMPTS) =>
         /\ last.handed = <<>>
         /\ batchQueue = last.queueBefore \o FoundNow
    /\ Flat(flushes) \o batchQueue = fetched
    /\ (BATCH_ATTEMPTS = 2 /\ stats.totalChecked = 3 /\ stats.found = 3) =>
         /\ Len(flushes) = 1
         /\ flushes[1].batch = SubSeq(fetched, 1, 2)
         /\ flushes[1].cause = "threshold"
         /\ batchQueue = <<fetched[3]>>

\* C3 witness: threshold 2, three found records, one flush, one record buffered
C3_Witness ==
    /\ BATCH_ATTEMPTS = 2
    /\ stats.totalChecked = 3
    /\ stats.found = 3
    /\ Len(flushes) = 1
    /\ Len(flushes[1].batch) = 2
    /\ Len(batchQueue) = 1

\* C4 as stated: after every flush triggered by the attempt counter being at or
\* above the threshold, the buffer is empty and the attempt counter is 0,
\* whatever the buffer held
C4_FlushClearsBufferAndCounter ==
    (IsAttempt /\ last.flushCalled) => (batchQueue = <<>> /\ attemptCounter = 0)

\* C5 as stated: every fetch attempt adds exactly 1 to the attempt counter,
\* whatever its outcome (the value before the flush check is compared)
C5_CounterAddsOne ==
    IsAttempt => last.counterAfter = last.counterBefore + 1

\* C6: no fetched record is dropped at a boundary.  The flush at the end of a
\* year segment and at the end of the run hands over the whole buffer whatever
\* the attempt counter is and leaves it empty; when the run is complete the
\* buffer is empty and the batches handed to saveBatch hold every fetched
\* record exactly once, in fetch order.
C6_NothingDroppedAtBoundary ==
    /\ last.op \in {"endSegment", "endRun"} =>
         /\ last.handed = last.queueBefore
         /\ batchQueue = <<>>
    /\ pc = "done" =>
         /\ batchQueue = <<>>
         /\ Flat(flushes) = fetched

\* C6 witness: a complete run in which a segment-end flush handed over records
\* while the attempt counter was below the threshold
C6_Witness ==
    /\ pc = "done"
    /\ \E i \in 1..Len(flushes) :
         /\ flushes[i].cause = "segment"
         /\ flushes[i].counter < BATCH_ATTEMPTS
         /\ flushes[i].batch # <<>>

\* ------------------------------------------------------------------------
\* Properties of the adapter (checked under SpecAdapter and SpecRecheck)
\* ------------------------------------------------------------------------

\* the number of calls of the fallback loop that returned true
Saved(callLog) == Cardinality({i \in 1..Len(callLog) : callLog[i].ok})

\* C7: when the bulk transport raised in saveBatch, or no bulk transport is
\* configured, every record of the batch is attempted once through
\* saveApplication, in batch order, and success + failed is the batch size
\* (success counting the calls that returned true).
C7_FallbackAttemptsEveryRecord ==
    (last.op = "saveBatch" /\ last.bulk \in {"raised", "none"}) =>
        /\ Len(last.calls) = Len(last.batch)
        /\ \A i \in 1..Len(last.batch) : last.calls[i].data = last.batch[i]
        /\ last.success + last.failed = Len(last.batch)
        /\ last.success = Saved(last.calls)
        /\ (last.bulk = "none") = ~importAPI

\* C7 witness: the bulk transport raised on a batch of two, the first record
\* failed through saveApplication and the second was still saved
C7_Witness ==
    /\ last.op = "saveBatch"
    /\ last.bulk = "raised"
    /\ Len(last.batch) = 2
    /\ ~last.calls[1].ok
    /\ last.calls[2].ok
    /\ last.success = 1
    /\ last.failed = 1

\* the records the last call persisted successfully: the record of a
\* saveApplication that returned true, every record of a batch whose import
\* returned, and the records the fallback loop saved
PersistedNow ==
    IF last.op = "saveApplication"
    THEN (IF last.ok THEN {last.data} ELSE {})
    ELSE IF last.op = "saveBatch"
    THEN (IF last.bulk = "ok"
          THEN {last.batch[i] : i \in 1..Len(last.batch)}
          ELSE {last.calls[i].data : i \in {j \in 1..Len(last.calls) : last.calls[j].ok}})
    ELSE {}

\* the snapshot taken of a record's application before the last call
BeforeOf(data) ==
    IF last.op = "saveApplication" THEN last.before[1]
    ELSE last.before[CHOOSE i \in 1..Len(last.batch) : last.batch[i] = data]

\* C8: for a persisted case, a not-found mark that is executed increases
\* not_found_count by exactly 1 (a mark whose statement fails leaves it), and a
\* successful refetch, through saveApplication or through the batch upsert,
\* sets it to exactly 0.
C8_NotFoundCount ==
    /\ (last.op = "markAsNotFound" /\ last.before[1].existed) =>
         applications[last.number].not_found_count =
             last.before[1].count + (IF last.ok THEN 1 ELSE 0)
    /\ \A data \in {d \in PersistedNow : BeforeOf(d).existed} :
         /\ data.applicationNumber \in DOMAIN applications
         /\ applications[data.applicationNumber].not_found_count = 0

\* C8 witness: a case marked not found twice or more was refetched through the
\* batch upsert and its counter is 0
C8_Witness ==
    /\ last.op = "saveBatch"
    /\ last.bulk = "ok"
    /\ last.before[1].existed
    /\ last.before[1].count >= 2
    /\ applications[last.batch[1].applicationNumber].not_found_count = 0

\* the applications the last call was about
TouchedNow ==
    IF last.op = "markAsNotFound" THEN {last.number}
    ELSE IF last.op = "saveApplication" THEN {last.data.applicationNumber}
    ELSE IF last.op = "saveBatch"
    THEN {last.batch[i].applicationNumber : i \in 1..Len(last.batch)}
    ELSE {}

\* the snapshot taken of an application before the last call
BeforeNumber(number) ==
    IF last.op = "saveBatch"
    THEN last.before[CHOOSE i \in 1..Len(last.batch) :
                         last.batch[i].applicationNumber = number]
    ELSE last.before[1]

\* C9: the skip flag of a case is false until a not-found mark brings its
\* not-found counter to 60, is true from that mark on, and stays true through
\* every later mark and refetch.
C9_SkipFlag ==
    /\ \A number \in DOMAIN applications :
         ~applications[number].skip_scraping =>
             applications[number].not_found_count < SkipThreshold
    /\ \A number \in TouchedNow \cap DOMAIN applications :
         LET before == BeforeNumber(number)
             row == applications[number]
         IN /\ ~before.existed => ~row.skip_scraping
            /\ (before.existed /\ before.skip) => row.skip_scraping
            /\ (before.existed /\ ~before.skip /\ row.skip_scraping) =>
                 /\ last.op = "markAsNotFound"
                 /\ last.ok
                 /\ before.count = SkipThreshold - 1
                 /\ row.not_found_count = SkipThreshold
            /\ (last.op = "markAsNotFound" /\ last.ok /\ before.existed
                  /\ before.count + 1 >= SkipThreshold) => row.skip_scraping

\* C9 witness: a case whose flag was set was refetched, its counter is back at
\* 0 and its flag is still set
C9_Witness ==
    /\ last.op \in {"saveApplication", "saveBatch"}
    /\ PersistedNow # {}
    /\ \E number \in TouchedNow \cap DOMAIN applications :
         /\ BeforeNumber(number).skip
         /\ BeforeNumber(number).count > SkipThreshold
         /\ applications[number].not_found_count = 0
         /\ applications[number].skip_scraping

\* C10: after a successful persist of a fetched record, through saveApplication
\* or through the batch script, the events of the case are the fetched events
\* in order: as many rows as fetched events, the description and converted
\* date of each, is_last_event on the final row and on no other, no row when
\* nothing was fetched, and so no row of an earlier fetch.
C10_EventsMirrorFetch ==
    \A data \in PersistedNow :
        LET rows == events[data.applicationNumber]
            list == data.majorEventsList
        IN /\ Len(rows) = Len(list)
           /\ \A i \in 1..Len(rows) :
                /\ rows[i].description = list[i].description
                /\ rows[i].event_date = SqlText(convertDate(list[i].eventDate))
                /\ rows[i].is_last_event = (i = Len(list))

\* C10 witness: a case holding two events was refetched with no event through
\* the batch script, and holds none
C10_Witness ==
    /\ last.op = "saveBatch"
    /\ last.bulk = "ok"
    /\ \E data \in PersistedNow :
         /\ data.majorEventsList = <<>>
         /\ BeforeOf(data).events = 2
         /\ events[data.applicationNumber] = <<>>

\* ------------------------------------------------------------------------
\* The upsert of one case applied again and again, through either path
\* ------------------------------------------------------------------------

\* the persisted state: the three tables without the timestamps
Tables == [applications |-> applications, events |-> events,
           representatives |-> representatives]

\* the records of the case upserted repeatedly
ReappliedData ==
    {Data(RecheckedNumber, TitleAvB, Null, <<>>),
     Data(RecheckedNumber, TitleAvB, RepA, <<EventHearing>>),
     Data(RecheckedNumber, TitleAvB, RepB, <<EventHearing, EventFinished>>)}

\* what the last step says of an upsert: the record, the path, whether it was
\* reported saved, the tables and the store (tables and cache) before it, and
\* whether the step before it was a reported save of the same record
Applied(data, path, ok) ==
    [op |-> "apply", data |-> data, path |-> path, ok |-> ok,
     tablesBefore |-> Tables, storeBefore |-> Store,
     again |-> last.op = "apply" /\ last.ok /\ last.data = data]

\* `await d1.saveApplication(data)`
ApplySingle ==
    /\ pc = "adapter"
    /\ calls < MaxApplies
    /\ \E data \in ReappliedData :
         \E o \in saveApplication(Store, data, CACHE_FLUSH_INTERVAL) :
            /\ SetStore(o.S)
            /\ last' = Applied(data, "single", o.ok)
    /\ calls' = calls + 1
    /\ UNCHANGED <<crawlVars, configVars>>

\* `await d1.saveBatch([data])`
ApplyBatch ==
    /\ pc = "adapter"
    /\ calls < MaxApplies
    /\ \E data \in ReappliedData :
         \E o \in saveBatch(Store, <<data>>, importAPI, CACHE_FLUSH_INTERVAL) :
            /\ SetStore(o.S)
            /\ last' = Applied(data, IF o.bulk = "ok" THEN "script" ELSE "fallback",
                               o.success = 1)
    /\ calls' = calls + 1
    /\ UNCHANGED <<crawlVars, configVars>>

NextReapply ==
    \/ ApplySingle
    \/ ApplyBatch

SpecReapply == InitAdapter /\ [][NextReapply]_vars

\* C11: applying the upsert of a case record a second time, right after it was
\* applied and reported saved, leaves the persisted state of the first
\* application: the same application rows (every field but the timestamps),
\* the same event rows, no second row for a representative.  The second
\* application may go through the same path or the other one.
C11_UpsertIdempotent ==
    (last.op = "apply" /\ last.ok /\ last.again) => Tables = last.tablesBefore

\* C11 witness: a record with a representative and two events was applied
\* through the batch script twice in a row on a case that held another record
C11_Witness ==
    /\ last.op = "apply"
    /\ last.ok
    /\ last.again
    /\ last.path = "script"
    /\ calls = 3
    /\ Len(last.data.majorEventsList) = 2
    /\ Len(events[RecheckedNumber]) = 2
    /\ Len(representatives) = 2

\* ------------------------------------------------------------------------
\* The monthly crawl as a run that has to end
\* ------------------------------------------------------------------------

\* flushBatch at the end of a year or of the run whose `await
\* this.importAPI.uploadSQL(batchSQL)` never returns: pollImport is a
\* `while (true)` left only when the server answers success or 'Not currently
\* importing anything.'; for an import the server keeps reporting as failed
\* (or as running) it polls every second for ever, and nothing bounds it.
\* (The threshold flush inside an attempt waits the same way.)
FlushNeverReturns ==
    /\ pc = "run"
    /\ importAPI
    /\ batchQueue # <<>>
    /\ \/ currentYear > maxYear
       \/ ~SegmentOpen(consecutiveSkips, maxConsecutiveSkips)
    /\ pc' = "polling"
    /\ last' = [op |-> "polling", number |-> 0, year |-> currentYear]
    /\ UNCHANGED <<applications, events, representatives, repCache, cacheCounter,
                   batchQueue, attemptCounter, stats, currentYear, currentNumber,
                   consecutiveSkips, fetched, flushes, segOutcomes, calls,
                   configVars>>

NextRun ==
    \/ Next
    \/ FlushNeverReturns

\* what EndSegment and EndRun do to the position of run(): the inner loop is
\* left for the next year, the outer loop for the end of run()
LeaveLoop ==
    /\ pc = "run"
    /\ \/ /\ currentYear > maxYear
          /\ pc' = "done"
          /\ currentYear' = currentYear
       \/ /\ currentYear <= maxYear
          /\ ~SegmentOpen(consecutiveSkips, maxConsecutiveSkips)
          /\ currentYear' = currentYear + 1
          /\ pc' = pc

\* the crawl's single thread goes on: a loop whose condition has become false
\* is left, unless the flush it then makes never returns
SpecRun == Init /\ [][NextRun]_vars /\ WF_<<pc, currentYear>>(LeaveLoop)

\* every year segment that is entered produces maxConsecutiveSkips consecutive
\* attempts without a record
EverySegmentRunsDry ==
    [](pc = "run" /\ currentYear <= maxYear
         => <>(~SegmentOpen(consecutiveSkips, maxConsecutiveSkips)))

\* C12 as stated: provided every year segment produces maxConsecutiveSkips
\* consecutive attempts without a record, the run reaches its end: the final
\* flush is done and the final statistics are reported
C12_RunTerminates == EverySegmentRunsDry => <>(pc = "done")

\* ------------------------------------------------------------------------
\* More properties of the monthly crawl (checked under Spec)
\* ------------------------------------------------------------------------

\* C13 as stated: an attempt that ends not found, or in a fetch error, hands
\* its identifier to markAsNotFound at once, before the next attempt, and
\* appends nothing to the buffer
C13_NotFoundIsMarked ==
    last.op \in {"notfound", "error"} =>
        /\ last.marked = <<(<<last.number, last.year>>)>>
        /\ last.queued = last.queueBefore

\* C14: a fetch attempt that throws is counted as an error and not as a
\* not-found (errors + 1, notFound and found unchanged, totalChecked + 1),
\* adds exactly 1 to the consecutive-skip count, and the loop goes on with the
\* next identifier of the same year.
C14_ErrorIsCountedAndSkipped ==
    last.op = "error" =>
        /\ stats.errors = last.statsBefore.errors + 1
        /\ stats.notFound = last.statsBefore.notFound
        /\ stats.found = last.statsBefore.found
        /\ stats.totalChecked = last.statsBefore.totalChecked + 1
        /\ consecutiveSkips = last.skipsBefore + 1
        /\ currentNumber = last.number + 1
        /\ currentYear = last.year
        /\ pc = "run"

\* C14 witness: a not-found attempt, then two attempts that threw
C14_Witness ==
    /\ last.op = "error"
    /\ stats.errors = 2
    /\ stats.notFound = 1
    /\ consecutiveSkips = 3

\* C15: the buffer never holds more records than the flush threshold, neither
\* between two attempts nor inside an attempt, after the record found was
\* pushed and before the flush test.
C15_BufferBounded ==
    /\ Len(batchQueue) <= BATCH_ATTEMPTS
    /\ IsAttempt => Len(last.queued) <= BATCH_ATTEMPTS

\* C15 witness: with a threshold of 3 the buffer held 3 records when the
\* third was pushed, and was flushed
C15_Witness ==
    /\ last.op = "found"
    /\ BATCH_ATTEMPTS = 3
    /\ Len(last.queued) = 3
    /\ last.handed = last.queued
    /\ batchQueue = <<>>

\* the identifier of a record, year first
Before(a, b) ==
    \/ a.applicationNumber[2] < b.applicationNumber[2]
    \/ /\ a.applicationNumber[2] = b.applicationNumber[2]
       /\ a.applicationNumber[1] < b.applicationNumber[1]

\* C16: records enter the buffer in strictly increasing identifier order
\* within a year (and year after year), and reach the loader in the order they
\* were buffered: the flushed batches one after the other, followed by the
\* buffer, are the fetched records in fetch order.
C16_FifoOrder ==
    /\ \A i \in 1..(Len(fetched) - 1) : Before(fetched[i], fetched[i + 1])
    /\ \A i \in 1..(Len(batchQueue) - 1) : Before(batchQueue[i], batchQueue[i + 1])
    /\ Flat(flushes) \o batchQueue = fetched
    /\ last.op = "found" => last.queued = Append(last.queueBefore, fetched[Len(fetched)])

\* C16 witness: three records were fetched over two years and flushed in two
\* batches, two records then one
C16_Witness ==
    /\ Len(fetched) = 3
    /\ batchQueue = <<>>
    /\ Len(flushes) >= 2
    /\ fetched[1].applicationNumber[2] < fetched[3].applicationNumber[2]
    /\ Len(flushes[1].batch) = 2

\* ------------------------------------------------------------------------
\* Batches of several records saved one after the other: records that share
\* a representative, have a blank one, or lack their title
\* ------------------------------------------------------------------------

\* a representant of white space only
Blank == <<" ", " ">>

\* the records a batch may hold for an application number
BatchShapes(number) ==
    {Data(number, TitleAvB, RepA, <<EventHearing, EventFinished>>),
     Data(number, TitleAvB, Blank, <<>>),
     Data(number, Null, RepB, <<EventHearing>>)}

\* batches of one record on application 1/18, or of two records on 1/18 and
\* 2/18
ScriptBatches ==
    {<<d>> : d \in BatchShapes(<<1, 18>>)}
    \cup {<<d, e>> : d \in BatchShapes(<<1, 18>>), e \in BatchShapes(<<2, 18>>)}

BatchCall ==
    /\ pc = "adapter"
    /\ calls < MaxBatchCalls
    /\ \E casesData \in ScriptBatches : DoSaveBatch(casesData)
    /\ calls' = calls + 1
    /\ UNCHANGED <<crawlVars, configVars>>

NextBatch == BatchCall

SpecBatch == InitAdapter /\ [][NextBatch]_vars

\* ------------------------------------------------------------------------
\* Properties of the batch script (checked under SpecBatch)
\* ------------------------------------------------------------------------

\* the script the last saveBatch built (it builds one when it has an importAPI)
ScriptNow == buildBatchSQLWithReps(last.batch)

\* the last call was a saveBatch that built a script
BuiltNow == last.op = "saveBatch" /\ importAPI

EventKinds == {"delete", "insert"}

\* C17: the batch script is ordered.  The representative insert-if-absent is
\* one statement, the first, and is there exactly when a record of the batch
\* has a non-blank representative; every case upsert comes before every event
\* statement; every event statement comes after the upsert of its own case;
\* an event insert directly follows the delete of the same case.
C17_ScriptOrdered ==
    BuiltNow =>
        LET script == ScriptNow
            n == Len(script)
        IN /\ \A i \in 1..n : script[i].kind = "reps" => i = 1
           /\ (n >= 1 /\ script[1].kind = "reps")
                = (\E k \in 1..Len(last.batch) : HasRepresentative(last.batch[k]))
           /\ \A i, j \in 1..n :
                (script[i].kind = "upsert" /\ script[j].kind \in EventKinds) => i < j
           /\ \A j \in 1..n :
                script[j].kind \in EventKinds =>
                    \E i \in 1..(j - 1) :
                        script[i].kind = "upsert" /\ script[i].number = script[j].number
           /\ \A j \in 1..n :
                script[j].kind = "insert" =>
                    /\ j > 1
                    /\ script[j - 1].kind = "delete"
                    /\ script[j - 1].number = script[j].number

\* C17 witness: the script of a batch of two represented cases with events
\* was imported: one representative insert, two upserts, two delete/insert
\* pairs
C17_Witness ==
    /\ BuiltNow
    /\ last.bulk = "ok"
    /\ Len(last.batch) = 2
    /\ [i \in 1..Len(ScriptNow) |-> ScriptNow[i].kind] =
         <<"reps", "upsert", "upsert", "delete", "insert", "delete", "insert">>

\* the records of the last batch that the script upserts with a representative
RepresentedNow ==
    {last.batch[i] : i \in {k \in 1..Len(last.batch) :
                               /\ HasRepresentative(last.batch[k])
                               /\ ~Malformed(last.batch[k])}}

\* C18: after a batch script was executed, every case the script upserted
\* with a non-blank representative name refers to the representatives row
\* that carries exactly that name; and the representatives table never holds
\* a name twice, whatever the batches shared.
C18_RepresentativeByName ==
    /\ \A i, j \in 1..Len(representatives) :
         representatives[i] = representatives[j] => i = j
    /\ (last.op = "saveBatch" /\ last.bulk = "ok") =>
         \A d \in RepresentedNow :
            LET id == applications[d.applicationNumber].representative_id
            IN /\ id \in 1..Len(representatives)
               /\ representatives[id] = d.representant

\* C18 witness: two cases of one batch share a representative that an
\* earlier batch had inserted after another one; both refer to its row
C18_Witness ==
    /\ last.op = "saveBatch"
    /\ last.bulk = "ok"
    /\ calls = 2
    /\ Len(last.batch) = 2
    /\ last.batch[1].representant = RepA
    /\ last.batch[2].representant = RepA
    /\ representatives = <<RepB, RepA>>
    /\ applications[<<1, 18>>].representative_id = 2
    /\ applications[<<2, 18>>].representative_id = 2

\* the statements of a script that are about an application number
StatementsOf(script, number) ==
    SelectSeqBy(script, {st \in {script[i] : i \in 1..Len(script)} :
                            st.kind # "reps" /\ st.number = number})

\* C19: a record the builder cannot convert (its title is missing) is skipped,
\* and the script still holds, for every other record of the batch, before it
\* or after it, its upsert, its event delete and, when it has events, its
\* event insert; once imported these records are in the store.
C19_MalformedSkipped ==
    BuiltNow =>
        \A k \in 1..Len(last.batch) :
            LET d == last.batch[k]
                own == StatementsOf(ScriptNow, d.applicationNumber)
            IN IF Malformed(d)
               THEN own = <<>>
               ELSE /\ Len(own) = (IF d.majorEventsList = <<>> THEN 2 ELSE 3)
                    /\ own[1].kind = "upsert"
                    /\ own[1].values = ApplicationValues(d, NoRep)
                    /\ own[2].kind = "delete"
                    /\ Len(own) = 3 =>
                         /\ own[3].kind = "insert"
                         /\ own[3].rows = EventRows(d.majorEventsList)
                    /\ last.bulk = "ok" =>
                         /\ d.applicationNumber \in DOMAIN applications
                         /\ applications[d.applicationNumber].application_title
                              = d.applicationTitle
                         /\ Len(events[d.applicationNumber]) = Len(d.majorEventsList)

\* C19 witness: the first record of an imported batch had no title; it is not
\* in the store and the second record is, with its events
C19_Witness ==
    /\ BuiltNow
    /\ last.bulk = "ok"
    /\ Len(last.batch) = 2
    /\ Malformed(last.batch[1])
    /\ ~Malformed(last.batch[2])
    /\ <<1, 18>> \notin DOMAIN applications
    /\ <<2, 18>> \in DOMAIN applications
    /\ Len(events[<<2, 18>>]) = 2

\* C20 as stated (checked under SpecAdapter): in every reachable state of the
\* store, also after a save that failed, the events of a case are the whole
\* event sequence of one fetch and go with the case fields of that same fetch.
\* A fetched record carries its last event in its case fields, so the events
\* of a case end with the event its row names, and a row that names a last
\* event has events.
C20_EventsOfOneFetch ==
    \A number \in DOMAIN applications :
        LET row == applications[number]
            rows == events[number]
        IN IF rows = <<>>
           THEN row.last_major_event = Null
           ELSE /\ row.last_major_event = rows[Len(rows)].description
                /\ row.last_major_event_date = rows[Len(rows)].event_date
                /\ \A i \in 1..Len(rows) : rows[i].is_last_event = (i = Len(rows))

\* ------------------------------------------------------------------------
\* Batches of three cases saved record by record (the fallback loop of
\* saveBatch), the store after every record kept
\* ------------------------------------------------------------------------

\* the records a fallback batch may hold for an application number
FallbackShapes(number) ==
    {Data(number, TitleAvB, RepA, <<EventHearing>>),
     Data(number, TitleAvB, RepB, <<EventHearing, EventFinished>>)}

\* batches of three records on applications 1/18, 2/18 and 3/18
FallbackBatches ==
    {<<d, e, Data(<<3, 18>>, TitleAvB, RepA, <<EventHearing>>)>> :
        d \in FallbackShapes(<<1, 18>>), e \in FallbackShapes(<<2, 18>>)}

\* `await d1.saveBatch(casesData)`, the log keeping the store after each call
\* of the fallback loop and the store before the first
FallbackCall ==
    /\ pc = "adapter"
    /\ calls < MaxFallbackCalls
    /\ \E casesData \in FallbackBatches :
         \E o \in saveBatch(Store, casesData, importAPI, CACHE_FLUSH_INTERVAL) :
            /\ SetStore(o.S)
            /\ last' = [op |-> "fallback", batch |-> casesData, bulk |-> o.bulk,
                        calls |-> o.calls, success |-> o.success,
                        failed |-> o.failed, start |-> Store]
    /\ calls' = calls + 1
    /\ UNCHANGED <<crawlVars, configVars>>

NextFallback == FallbackCall

SpecFallback == InitAdapter /\ [][NextFallback]_vars

\* what a store holds of a case: its row, its events and the name of the
\* representative its row refers to
PersistedCase(S, number) ==
    IF number \in DOMAIN S.applications
    THEN [present |-> TRUE, row |-> S.applications[number],
          events |-> S.events[number],
          representative |->
              IF S.applications[number].representative_id = NoRep THEN Null
              ELSE S.representatives[S.applications[number].representative_id]]
    ELSE [present |-> FALSE]

\* the store the i-th call of the fallback loop started from
StoreBeforeCall(i) == IF i = 1 THEN last.start ELSE last.calls[i - 1].S

\* C21: in the per-record fallback a record whose save fails is counted as
\* failed (failed is the number of calls that returned false), every later
\* record of the batch is still attempted, and the failing call leaves the
\* persisted state (row, events, representative) of every record saved
\* earlier in the batch as it was.
C21_FailureIsLocal ==
    (last.op = "fallback" /\ last.bulk # "ok") =>
        /\ Len(last.calls) = Len(last.batch)
        /\ last.failed = Cardinality({i \in 1..Len(last.calls) : ~last.calls[i].ok})
        /\ \A i \in 1..Len(last.calls) :
             ~last.calls[i].ok =>
                \A j \in 1..(i - 1) :
                    last.calls[j].ok =>
                        /\ PersistedCase(last.calls[i].S, last.batch[j].applicationNumber)
                             = PersistedCase(StoreBeforeCall(i),
                                             last.batch[j].applicationNumber)
                        /\ PersistedCase(last.calls[i].S,
                                         last.batch[j].applicationNumber).present

\* C21 witness: the first record was saved, the save of the second failed after
\* its own upsert was applied and its representative inserted, and the third
\* was attempted and saved; the first case is as its record says
C21_Witness ==
    /\ last.op = "fallback"
    /\ last.bulk # "ok"
    /\ last.calls[1].ok
    /\ ~last.calls[2].ok
    /\ last.calls[3].ok
    /\ last.success = 2
    /\ last.failed = 1
    /\ last.batch[1].representant # last.batch[2].representant
    /\ <<2, 18>> \in DOMAIN last.calls[2].S.applications
    /\ Len(last.calls[2].S.representatives) = 2
    /\ Len(events[<<1, 18>>]) = Len(last.batch[1].majorEventsList)
    /\ representatives[applications[<<1, 18>>].representative_id]
         = last.batch[1].representant

\* ------------------------------------------------------------------------
\* D1ImportAPI.uploadSQL step by step, as saveBatch awaits it: init, upload
\* to R2, ETag check, ingest, poll.  pc is the request awaited; batchQueue
\* holds the casesData of the call; last carries what the server did with the
\* script, the number of polls and the requests answered so far (trace).
\* ------------------------------------------------------------------------

\* the answers of the server the code tells apart at each request
InitAnswers == {"ok", "refused"}

UploadAnswers == {"match", "mismatch"}

IngestAnswers == {"ok", "refused"}

\* result.result of a poll: success; success false with the error 'Not
\* currently importing anything.'; success false with another error; success
\* false and no error (the import still runs)
PollAnswers == {"success", "notImporting", "error", "pending"}

\* the answers by which the server reports a failure
FailureAnswers == {"refused", "mismatch", "error"}

\* a variant of uploadSQL without the ETag check
AfterAnswerUnverified(stage, answer) ==
    CASE stage = "init" -> IF answer = "ok" THEN "upload" ELSE "raise"
      [] stage = "upload" -> "ingest"
      [] stage = "ingest" -> IF answer = "ok" THEN "poll" ELSE "raise"
      [] stage = "poll" ->
            IF answer \in {"success", "notImporting"} THEN "return" ELSE "poll"

\* what uploadSQL does on an answer: the next request, "raise" (throw) or
\* "return" (return true).  init and ingest throw on !success, the upload on
\* an ETag that differs; pollImport returns on success or on 'Not currently
\* importing anything.' and otherwise waits a second and polls again
AfterAnswer(stage, answer) ==
    CASE stage = "init" -> IF answer = "ok" THEN "upload" ELSE "raise"
      [] stage = "upload" -> IF answer = "match" THEN "ingest" ELSE "raise"
      [] stage = "ingest" -> IF answer = "ok" THEN "poll" ELSE "raise"
      [] stage = "poll" ->
            IF answer \in {"success", "notImporting"} THEN "return" ELSE "poll"

\* the batches saved through the import protocol
ImportBatches ==
    {<<Data(<<1, 18>>, TitleAvB, RepA, <<EventHearing>>)>>,
     <<Data(<<1, 18>>, TitleAvB, RepB, <<EventHearing, EventFinished>>),
       Data(<<2, 18>>, TitleAvB, Null, <<>>)>>}

\* saveBatch(casesData) with an importAPI: the script is built and the init
\* request sent
ImportStart ==
    /\ pc = "adapter"
    /\ calls < MaxImports
    /\ \E casesData \in ImportBatches :
         /\ batchQueue' = casesData
         /\ last' = [op |-> "import", stage |-> "start", answer |-> "none",
                     did |-> "init", applied |-> FALSE, polls |-> 0,
                     success |-> 0, failed |-> 0, trace |-> <<>>]
    /\ pc' = "init"
    /\ calls' = calls + 1
    /\ UNCHANGED <<applications, events, representatives, repCache, cacheCounter,
                   attemptCounter, stats, currentYear, currentNumber,
                   consecutiveSkips, fetched, flushes, segOutcomes, configVars>>

\* the code's step on an answer at the request pc: the next request, or the
\* return of uploadSQL and of saveBatch ({success: casesData.length, failed:
\* 0}), or the throw, which saveBatch catches to run the fallback loop
ImportStep(answer, T, applied) ==
    LET did == AfterAnswer(pc, answer)
        polls == IF pc = "poll" THEN last.polls + 1 ELSE last.polls
        step(success, failed) ==
            [op |-> "import", stage |-> pc, answer |-> answer, did |-> did,
             applied |-> applied, polls |-> polls,
             success |-> success, failed |-> failed,
             trace |-> Append(last.trace, [stage |-> pc, answer |-> answer])]
    IN /\ UNCHANGED <<attemptCounter, stats, currentYear, currentNumber,
                      consecutiveSkips, fetched, flushes, segOutcomes, configVars,
                      calls>>
       /\ CASE did = "raise" ->
                 \E o \in Fallback([S |-> T, success |-> 0, failed |-> 0,
                                     calls |-> <<>>],
                                    batchQueue, CACHE_FLUSH_INTERVAL) :
                     /\ SetStore(o.S)
                     /\ last' = step(o.success, o.failed)
                     /\ pc' = "adapter"
                     /\ batchQueue' = <<>>
            [] did = "return" ->
                 /\ SetStore(T)
                 /\ last' = step(Len(batchQueue), 0)
                 /\ pc' = "adapter"
                 /\ batchQueue' = <<>>
            [] OTHER ->
                 /\ SetStore(T)
                 /\ last' = step(0, 0)
                 /\ pc' = did
                 /\ batchQueue' = batchQueue

\* the answer to `action: 'init'`
InitAnswer ==
    /\ pc = "init"
    /\ \E answer \in InitAnswers : ImportStep(answer, Store, FALSE)

\* the ETag of the PUT to R2 compared with the MD5 of the script
UploadAnswer ==
    /\ pc = "upload"
    /\ \E answer \in UploadAnswers : ImportStep(answer, Store, FALSE)

\* the answer to `action: 'ingest'`; once accepted the server runs the
\* script, completely or not at all
IngestAnswer ==
    /\ pc = "ingest"
    /\ \/ ImportStep("refused", Store, FALSE)
       \/ ImportStep("ok", Store, FALSE)
       \/ ImportStep("ok", ExecScript(Store, buildBatchSQLWithReps(batchQueue)), TRUE)

\* the answer to a poll: success or 'Not currently importing anything.' once
\* the script ran, an error when it did not, or nothing yet
PollAnswer ==
    /\ pc = "poll"
    /\ \E answer \in PollAnswers :
         /\ answer \in {"success", "notImporting"} => last.applied
         /\ answer = "error" => ~last.applied
         /\ answer \in {"error", "pending"} => last.polls < MaxPolls
         /\ ImportStep(answer, Store, last.applied)

InitImport == InitAdapter /\ importAPI

NextImport ==
    \/ ImportStart
    \/ InitAnswer
    \/ UploadAnswer
    \/ IngestAnswer
    \/ PollAnswer

SpecImport == InitImport /\ [][NextImport]_vars

\* C22 as stated: the bulk transport raises on a failure the server reports
\* at any request of an import, the polls after ingestion included (so
\* saveBatch goes on to the per-record fallback), and it returns success only
\* when the import was carried out.
C22_TransportRaisesOnFailure ==
    last.op = "import" =>
        /\ last.answer \in FailureAnswers => last.did = "raise"
        /\ last.did = "return" => last.applied

\* C23 as stated (checked under Spec): without the credentials of the bulk
\* transport (importAPI is null) the run aborts at startup: no fetch is
\* attempted and no batch is saved through another transport.
C23_MissingCredentialsAbort ==
    ~importAPI => (stats.totalChecked = 0 /\ fetched = <<>> /\ flushes = <<>>)

\* ------------------------------------------------------------------------
\* saveApplication called on cases of three representatives (more names than
\* CACHE_FLUSH_INTERVAL), every statement failing or not
\* ------------------------------------------------------------------------
CacheData ==
    {Data(<<1, 18>>, TitleAvB, rep, <<EventHearing>>) : rep \in {RepA, RepB, RepC}}

CacheSave ==
    /\ pc = "adapter"
    /\ calls < MaxCacheCalls
    /\ \E data \in CacheData : DoSaveApplication(data)
    /\ calls' = calls + 1
    /\ UNCHANGED <<crawlVars, configVars>>

NextCache == CacheSave

SpecCache == InitAdapter /\ [][NextCache]_vars

\* C24 as stated: over any sequence of saveApplication calls, successful or
\* failing, the representative cache never holds more than
\* CACHE_FLUSH_INTERVAL names.
C24_CacheBounded == Cardinality(DOMAIN repCache) <= CACHE_FLUSH_INTERVAL

\* ------------------------------------------------------------------------
\* The text conversions applied to texts drawn from small alphabets
\* ------------------------------------------------------------------------

RECURSIVE Texts(_, _)
\* the texts made of at most n tokens
Texts(tokens, n) ==
    IF n = 0 THEN {<<>>}
    ELSE LET shorter == Texts(tokens, n - 1)
         IN shorter \cup {s \o t : s \in shorter, t \in tokens}

DateTokens == {<<"5">>, <<"2", "0", "2", "0">>, <<"/">>, <<"a">>}

\* the texts given to convertDate: the dates of the fetched pages and of the
\* documentation, missing input, and every text of at most MaxDateTokens tokens
DateTexts ==
    {Null,
     <<"0", "5", "/", "0", "3", "/", "2", "0", "2", "0">>,
     <<"2", "0", "2", "0", "-", "0", "3", "-", "0", "5">>,
     <<"n", "o", "t", "-", "a", "-", "d", "a", "t", "e">>}
    \cup Texts(DateTokens, MaxDateTokens)

TitleTokens == {<<"v", ".", " ">>, <<"v">>, <<".">>, <<" ">>, <<"B">>}

\* the titles given to extractCountry
TitleTexts == {TitleAvB} \cup Texts(TitleTokens, MaxTitleTokens)

\* `this.convertDate(dateStr)`
ConvertDateCall ==
    /\ pc = "text"
    /\ last.op = "dateStr"
    /\ last' = [op |-> "convertDate", dateStr |-> last.text,
                result |-> convertDate(last.text)]
    /\ UNCHANGED <<applications, events, representatives, repCache, cacheCounter,
                   crawlVars, configVars, calls>>

\* `this.extractCountry(title)`
ExtractCountryCall ==
    /\ pc = "text"
    /\ last.op = "title"
    /\ last' = [op |-> "extractCountry", title |-> last.text,
                result |-> extractCountry(last.text)]
    /\ UNCHANGED <<applications, events, representatives, repCache, cacheCounter,
                   crawlVars, configVars, calls>>

\* a new adapter and a text about to be converted
InitText ==
    /\ applications = <<>>
    /\ events = <<>>
    /\ representatives = <<>>
    /\ repCache = <<>>
    /\ cacheCounter = 0
    /\ CACHE_FLUSH_INTERVAL = 2
    /\ importAPI = FALSE
    /\ startYear = DefaultStartYear
    /\ maxYear = DefaultStartYear
    /\ maxConsecutiveSkips = 1
    /\ startNumber = 1
    /\ BATCH_ATTEMPTS = 1
    /\ batchQueue = <<>>
    /\ attemptCounter = 0
    /\ stats = [found |-> 0, notFound |-> 0, errors |-> 0, totalChecked |-> 0]
    /\ currentYear = startYear
    /\ currentNumber = startNumber
    /\ consecutiveSkips = 0
    /\ pc = "text"
    /\ fetched = <<>>
    /\ flushes = <<>>
    /\ segOutcomes = <<>>
    /\ calls = 0
    /\ last \in {[op |-> "dateStr", text |-> t] : t \in DateTexts}
                \cup {[op |-> "title", text |-> t] : t \in TitleTexts}

NextText ==
    \/ ConvertDateCall
    \/ ExtractCountryCall

SpecText == InitText /\ [][NextText]_vars

\* a text of exactly three non-empty parts separated by slashes
IsDayMonthYear(text) ==
    LET parts == Split(text, "/")
    IN Len(parts) = 3 /\ \A i \in 1..3 : parts[i] # <<>>

\* C25 as stated: convertDate returns a YYYY-MM-DD input unchanged, the
\* zero-padded year-month-day for a text of three slash-separated parts
\* day/month/year, and null for every other text and for missing input, texts
\* of fewer or more than three slash-separated parts included.
C25_ConvertDate ==
    last.op = "convertDate" =>
        LET dateStr == last.dateStr
        IN IF dateStr = Null THEN last.result = Null
           ELSE IF IsIsoDate(dateStr) THEN last.result = dateStr
           ELSE IF IsDayMonthYear(dateStr)
           THEN LET parts == Split(dateStr, "/")
                IN last.result = parts[3] \o <<"-">> \o padStart2(parts[2])
                                   \o <<"-">> \o padStart2(parts[1])
           ELSE last.result = Null

\* the positions at which the separator "v. " occurs in a title
SeparatorAt(title) ==
    {i \in 1..(Len(title) - 2) :
        title[i] = "v" /\ title[i + 1] = "." /\ title[i + 2] = " "}

\* C26 as stated: extractCountry returns the text after the last occurrence of
\* "v. " in the title (surrounding blanks removed; null is accepted where
\* nothing follows), and null when the title holds no "v. ".
C26_ExtractCountry ==
    last.op = "extractCountry" =>
        IF SeparatorAt(last.title) = {} THEN last.result = Null
        ELSE LET k == CHOOSE i \in SeparatorAt(last.title) :
                          \A j \in SeparatorAt(last.title) : j <= i
                 after == trim(SubSeq(last.title, k + 3, Len(last.title)))
             IN \/ last.result = after
                \/ after = <<>> /\ last.result = Null

\* the tables of a store
TablesOf(S) ==
    [applications |-> S.applications, events |-> S.events,
     representatives |-> S.representatives]

\* the store before the last upsert with the batch script of its record
\* executed on it
ViaScript == ExecScript(last.storeBefore, buildBatchSQLWithReps(<<last.data>>))

\* C27 as stated (checked under SpecReapply): persisting a record through
\* saveApplication and through the batch script is equivalent.  A save that
\* saveApplication reports leaves the tables the script would have left on
\* the same store; and a record the batch path persisted and reported saved
\* can be saved through saveApplication on the same store, with the same
\* tables and the same report.
C27_PathsEquivalent ==
    /\ (last.op = "apply" /\ last.path = "single" /\ last.ok) =>
          Tables = TablesOf(ViaScript)
    /\ (last.op = "apply" /\ last.path = "script") =>
          /\ last.ok
          /\ Tables = TablesOf(ViaScript)
          /\ \E o \in saveApplication(last.storeBefore, last.data, CACHE_FLUSH_INTERVAL) :
                o.ok /\ TablesOf(o.S) = Tables

\* C28 as stated (checked under SpecReapply): when saveApplication returns
\* false the store is as it was before the call: the applications rows (case
\* fields and not-found counter), the events and the representatives table.
C28_FailedSaveChangesNothing ==
    (last.op = "apply" /\ last.path = "single" /\ ~last.ok) =>
        Tables = last.tablesBefore

\* the positions of the last batch whose record has its upsert and its event
\* statements in the script
SubmittedNow ==
    {k \in 1..Len(last.batch) :
        LET own == StatementsOf(ScriptNow, last.batch[k].applicationNumber)
        IN /\ \E i \in 1..Len(own) : own[i].kind = "upsert"
           /\ \E i \in 1..Len(own) : own[i].kind = "delete"}

C30_StatsAddUp ==
    /\ stats.totalChecked = stats.found + stats.notFound + stats.errors
    /\ last.op \in AttemptOps =>
         LET added == [found |-> stats.found - last.statsBefore.found,
                       notFound |-> stats.notFound - last.statsBefore.notFound,
                       errors |-> stats.errors - last.statsBefore.errors]
         IN /\ stats.totalChecked = last.statsBefore.totalChecked + 1
            /\ \A f \in DOMAIN added : added[f] \in {0, 1}
            /\ added.found + added.notFound + added.errors = 1

\* C30 witness: four attempts made, of each outcome at least one, the last
\* one a fetch that threw
C30_Witness ==
    /\ last.op = "error"
    /\ stats.totalChecked = 4
    /\ stats.found >= 1
    /\ stats.notFound >= 1
    /\ stats.errors >= 1

\* the requests of the import under way or just ended, with their answers
TraceNow == last.trace

\* the answers by which a poll reports that the import is over
CompletionAnswers == {"success", "notImporting"}

\* C31 (checked under SpecImport): the requests of an import are made in the
\* order init, upload (with the ETag check), ingest, poll.  The ingest request
\* is made only after init succeeded and the upload's ETag equalled the
\* script's hash; a poll is made only after the ingest was accepted; uploadSQL
\* returns only on a poll that reported completion; after a refused init or
\* an ETag mismatch uploadSQL raises and no ingest request was made.
C31_ProtocolOrder ==
    last.op = "import" =>
        LET n == Len(TraceNow)
            at(i, stage, answer) ==
                i <= n /\ TraceNow[i] = [stage |-> stage, answer |-> answer]
        IN /\ n >= 1 => TraceNow[1].stage = "init"
           /\ n >= 2 => TraceNow[2].stage = "upload"
           /\ n >= 3 => TraceNow[3].stage = "ingest"
           /\ \A i \in 4..n : TraceNow[i].stage = "poll"
           /\ n >= 2 => at(1, "init", "ok")
           /\ n >= 3 => at(2, "upload", "match")
           /\ n >= 4 => at(3, "ingest", "ok")
           /\ last.did = "return" =>
                n >= 4 /\ TraceNow[n].answer \in CompletionAnswers
           /\ \A i \in 1..(n - 1) : TraceNow[i].answer \notin CompletionAnswers
           /\ (at(1, "init", "refused") \/ at(2, "upload", "mismatch")) =>
                /\ last.did = "raise"
                /\ \A i \in 1..n : TraceNow[i].stage # "ingest"
           /\ pc = (IF last.did \in {"raise", "return"} THEN "adapter" ELSE last.did)

\* C31 witness: an import that went through all the requests, the first poll
\* finding it still running and the second reporting success; uploadSQL
\* returned and the script was carried out
C31_Witness ==
    /\ last.op = "import"
    /\ last.did = "return"
    /\ last.applied
    /\ [i \in 1..Len(TraceNow) |-> TraceNow[i].stage]
         = <<"init", "upload", "ingest", "poll", "poll">>
    /\ TraceNow[4].answer = "pending"
    /\ TraceNow[5].answer = "success"
    /\ <<1, 18>> \in DOMAIN applications

\* ------------------------------------------------------------------------
\* WeeklyECHRScraper.run: the subscribed cases checked one by one.  fetched
\* holds subscribedCases, currentNumber the position in the list (from 1),
\* stats the scraper's this.stats, segOutcomes what was done with each case.
\* ------------------------------------------------------------------------

\* the database before the weekly crawl: MaxSubscribed open cases persisted by
\* an earlier import, each with one event
WeeklyStore ==
    ExecScript(EmptyStore,
               buildBatchSQLWithReps([k \in 1..MaxSubscribed |->
                                         Data(<<k, 18>>, TitleAvB, RepA, <<EventHearing>>)]))

RECURSIVE Ascending(_)
\* the numbers of a set in ascending order (ORDER BY s.application_number)
Ascending(numbers) ==
    IF numbers = {} THEN <<>>
    ELSE LET least == CHOOSE n \in numbers : \A m \in numbers : n <= m
         IN <<least>> \o Ascending(numbers \ {least})

\* the rows getSubscribedCases may return: the open cases with an active
\* subscription, each once (SELECT DISTINCT), with the last event on record
SubscribedLists ==
    {LET order == Ascending(subscribed)
     IN [i \in 1..Len(order) |->
            [application_number |-> <<order[i], 18>>,
             current_event |-> WeeklyStore.applications[<<order[i], 18>>].last_major_event]] :
     subscribed \in SUBSET (1..MaxSubscribed)}

\* what the fetcher may return for a subscribed case: the page as it was, or
\* with a new last event
WeeklyData(number) ==
    {Data(number, TitleAvB, RepA, <<EventHearing>>),
     Data(number, TitleAvB, RepA, <<EventHearing, EventFinished>>)}

\* `const hasChanged = newEvent !== caseInfo.current_event`
HasChanged(data, caseInfo) == data.lastMajorEvent # caseInfo.current_event

\* a variant that saves a found case only when its last event changed
SavesFoundIfChanged(hasChanged) == hasChanged

\* the found branch calls saveApplication after either counter was raised
SavesFound(hasChanged) == TRUE

\* this.stats after one case
WeeklyStatsAfter(st, outcome, hasChanged) ==
    [total |-> st.total,
     updated |-> st.updated + (IF outcome = "found" /\ hasChanged THEN 1 ELSE 0),
     unchanged |-> st.unchanged + (IF outcome = "found" /\ ~hasChanged THEN 1 ELSE 0),
     notFound |-> st.notFound + (IF outcome = "notfound" THEN 1 ELSE 0),
     errors |-> st.errors + (IF outcome = "error" THEN 1 ELSE 0)]

\* `const subscribedCases = await this.getSubscribedCases()`, the total set;
\* an empty list ends the run, a failing query rejects it
WeeklyStart ==
    /\ pc = "weeklyStart"
    /\ \/ \E list \in SubscribedLists :
            /\ fetched' = list
            /\ stats' = [stats EXCEPT !.total = Len(list)]
            /\ pc' = IF list = <<>> THEN "weeklyDone" ELSE "weekly"
       \/ /\ pc' = "weeklyFailed"
          /\ UNCHANGED <<fetched, stats>>
    /\ last' = [op |-> "weeklyStart"]
    /\ UNCHANGED <<applications, events, representatives, repCache, cacheCounter,
                   batchQueue, attemptCounter, currentYear, currentNumber,
                   consecutiveSkips, flushes, segOutcomes, calls, configVars>>

\* one iteration of the loop of run() on subscribedCases[i]: the fetch with
\* the given outcome, the counter raised, the adapter call of the branch; after
\* the last case the statistics are printed
WeeklyCaseWith(outcome, data) ==
    LET caseInfo == fetched[currentNumber]
        number == caseInfo.application_number
        hasChanged == outcome = "found" /\ HasChanged(data, caseInfo)
        call == IF outcome = "found"
                THEN (IF SavesFound(hasChanged) THEN "saveApplication" ELSE "none")
                ELSE IF outcome = "notfound" THEN "markAsNotFound"
                ELSE "none"
        outs == IF call = "saveApplication"
                THEN saveApplication(Store, data, CACHE_FLUSH_INTERVAL)
                ELSE IF call = "markAsNotFound"
                THEN markAsNotFound(Store, number)
                ELSE {[S |-> Store, ok |-> FALSE]}
    IN /\ pc = "weekly"
       /\ currentNumber <= Len(fetched)
       /\ \E o \in outs :
            /\ SetStore(o.S)
            /\ last' = [op |-> "weekly", index |-> currentNumber, number |-> number,
                        outcome |-> outcome, changed |-> hasChanged, call |-> call,
                        data |-> data, ok |-> o.ok, statsBefore |-> stats]
       /\ stats' = WeeklyStatsAfter(stats, outcome, hasChanged)
       /\ segOutcomes' = Append(segOutcomes,
                                [number |-> number, outcome |-> outcome, call |-> call,
                                 data |-> data])
       /\ currentNumber' = currentNumber + 1
       /\ pc' = IF currentNumber = Len(fetched) THEN "weeklyDone" ELSE "weekly"
       /\ UNCHANGED <<batchQueue, attemptCounter, currentYear, consecutiveSkips,
                      fetched, flushes, calls, configVars>>

\* scrapeECHRApplication returned the page of the case
WeeklyFound ==
    /\ pc = "weekly"
    /\ \E data \in WeeklyData(fetched[currentNumber].application_number) :
         WeeklyCaseWith("found", data)

\* scrapeECHRApplication returned null
WeeklyNotFound ==
    /\ pc = "weekly"
    /\ \E data \in {Null} : WeeklyCaseWith("notfound", data)

\* scrapeECHRApplication threw
WeeklyError ==
    /\ pc = "weekly"
    /\ \E data \in {Null} : WeeklyCaseWith("error", data)

\* the state after `new WeeklyECHRScraper(databaseName)`
InitWeekly ==
    /\ applications = WeeklyStore.applications
    /\ events = WeeklyStore.events
    /\ representatives = WeeklyStore.representatives
    /\ repCache = <<>>
    /\ cacheCounter = 0
    /\ CACHE_FLUSH_INTERVAL = 2
    /\ importAPI \in BOOLEAN
    /\ startYear = DefaultStartYear
    /\ maxYear = DefaultStartYear
    /\ maxConsecutiveSkips = 1
    /\ startNumber = 1
    /\ BATCH_ATTEMPTS = 1
    /\ batchQueue = <<>>
    /\ attemptCounter = 0
    /\ stats = [total |-> 0, updated |-> 0, unchanged |-> 0, notFound |-> 0,
                errors |-> 0]
    /\ currentYear = startYear
    /\ currentNumber = 1
    /\ consecutiveSkips = 0
    /\ pc = "weeklyStart"
    /\ fetched = <<>>
    /\ flushes = <<>>
    /\ segOutcomes = <<>>
    /\ calls = 0
    /\ last = [op |-> "init"]

NextWeekly ==
    \/ WeeklyStart
    \/ WeeklyFound
    \/ WeeklyNotFound
    \/ WeeklyError

SpecWeekly == InitWeekly /\ [][NextWeekly]_vars

\* the adapter call the weekly crawl owes a case, by the outcome of its fetch
CallOwed(outcome) ==
    CASE outcome = "found" -> "saveApplication"
      [] outcome = "notfound" -> "markAsNotFound"
      [] outcome = "error" -> "none"

\* C32 (checked under SpecWeekly): the weekly crawl takes the subscribed cases
\* one by one in list order, each exactly once.  A case found is handed to
\* saveApplication whether or not its last event changed, a case not found to
\* markAsNotFound; after a case whose fetch threw the loop goes on with the
\* next case; every case raises exactly one of updated, unchanged, notFound
\* and errors, so that at completion their sum is total.
C32_WeeklyProcessesEachOnce ==
    pc \in {"weekly", "weeklyDone"} =>
        LET done == Len(segOutcomes)
        IN /\ stats.total = Len(fetched)
           /\ \A i, j \in 1..Len(fetched) :
                fetched[i].application_number = fetched[j].application_number => i = j
           /\ done = currentNumber - 1
           /\ done <= Len(fetched)
           /\ \A k \in 1..done :
                /\ segOutcomes[k].number = fetched[k].application_number
                /\ segOutcomes[k].call = CallOwed(segOutcomes[k].outcome)
                /\ segOutcomes[k].outcome = "found" =>
                     segOutcomes[k].data.applicationNumber = segOutcomes[k].number
           /\ stats.updated + stats.unchanged + stats.notFound + stats.errors = done
           /\ stats.updated + stats.unchanged
                = Cardinality({k \in 1..done : segOutcomes[k].outcome = "found"})
           /\ stats.notFound
                = Cardinality({k \in 1..done : segOutcomes[k].outcome = "notfound"})
           /\ (pc = "weeklyDone") = (done = Len(fetched))
           /\ pc = "weeklyDone" =>
                stats.updated + stats.unchanged + stats.notFound + stats.errors
                    = stats.total
           /\ (last.op = "weekly" /\ last.call = "saveApplication" /\ last.ok) =>
                applications[last.number].last_major_event = last.data.lastMajorEvent
           /\ (last.op = "weekly" /\ last.call = "markAsNotFound" /\ last.ok) =>
                applications[last.number].not_found_count >= 1

\* C32 witness: two subscribed cases; the fetch of the first threw, the second
\* was found with its last event unchanged and saved; the run completed
C32_Witness ==
    /\ pc = "weeklyDone"
    /\ Len(fetched) = 2
    /\ segOutcomes[1].outcome = "error"
    /\ segOutcomes[2].outcome = "found"
    /\ last.op = "weekly"
    /\ ~last.changed
    /\ last.call = "saveApplication"
    /\ last.ok
    /\ stats = [total |-> 2, updated |-> 0, unchanged |-> 1, notFound |-> 0,
                errors |-> 1]

=============================================================================
